---- MODULE Spec2Model ----
(***************************************************************************)
(* Investment ledger of the gripinvest backend: the Express handlers of    *)
(* routes/investments.js and of the product routes, the Sequelize models   *)
(* they use, and the rows they read and write.  Every await on a database  *)
(* query is a point where another request may run, so a handler is a       *)
(* sequence of atomic steps, one per query.                                *)
(*                                                                         *)
(* Units: amounts and investment bounds are whole currency units,          *)
(* expected_return and actual_return are hundredths (DECIMAL(12,2)),       *)
(* annual_yield is a whole percentage, time is counted in half days.       *)
(***************************************************************************)
EXTENDS Integers, Sequences, FiniteSets, TLC

\* ------------------------------------------------------------------ bounds
MaxReqs == 2

\* ------------------------------------------------------------- input sets
Users == {"u1", "u2"}
ProductIds == {"p1"}
AmountValues == {5, 50, 150}
NoteValues == {"n1"}
UnknownId == 0
Instants == 0..1
ReqIds == 1..MaxReqs

\* SQL NULL in a numeric column, and in the notes column
NULL == -1
NullNotes == "NULL"

\* --------------------------------------------------- JavaScript values
\* A request body field is a JSON number or a string (a JSON string, or any
\* field of a urlencoded body); the amount validator accepts both and leaves
\* the value as it came.  A DECIMAL column comes back from the MySQL driver
\* as a string with two decimals.
RECURSIVE ToChars(_)
ToChars(n) ==
  IF n < 10 THEN <<48 + n>> ELSE ToChars(n \div 10) \o <<48 + (n % 10)>>

DecimalStr(n) == ToChars(n) \o <<46, 48, 48>>

JsNumber(n) == [t |-> "number", n |-> n, s |-> <<>>]
JsString(n) == [t |-> "string", n |-> n, s |-> ToChars(n)]
DbDecimal(n) == [t |-> "string", n |-> n, s |-> DecimalStr(n)]

RECURSIVE StrLess(_, _)
StrLess(a, b) ==
  IF b = <<>> THEN FALSE
  ELSE IF a = <<>> THEN TRUE
  ELSE IF Head(a) # Head(b) THEN Head(a) < Head(b)
  ELSE StrLess(Tail(a), Tail(b))

\* the relational operators of JavaScript: two strings compare by code
\* units, anything else compares as numbers
JsLess(a, b) ==
  IF a.t = "string" /\ b.t = "string" THEN StrLess(a.s, b.s) ELSE a.n < b.n

JsLessEq(a, b) ==
  IF a.t = "string" /\ b.t = "string" THEN ~StrLess(b.s, a.s) ELSE a.n <= b.n

parseFloat(a) == a.n

\* a body validation that lets every amount through
anyAmount(amount) == TRUE

\* body('amount').isFloat({ min: 0.01 }): the value read as a number is at
\* least one hundredth
validAmount(amount) == amount.n * 100 >= 1

StringAmountValues == {50}
AmountInputs ==
  {JsNumber(n) : n \in AmountValues} \cup {JsString(n) : n \in StringAmountValues}

\* ------------------------------------------------------------ the state
VARIABLES products, investments, reqs, now, users, issued

vars == <<products, investments, reqs, now, users, issued>>

\* ------------------------------------------------------ arithmetic
RECURSIVE GCD(_, _)
GCD(a, b) == IF b = 0 THEN a ELSE GCD(b, a % b)

RECURSIVE Pow(_, _)
Pow(b, e) == IF e = 0 THEN 1 ELSE b * Pow(b, e - 1)

\* x / y rounded to the nearest integer, halves up
RoundDiv(x, y) == (2 * x + y) \div (2 * y)

Abs(x) == IF x < 0 THEN 0 - x ELSE x

\* the elements of a list
Range(seq) == {seq[k] : k \in DOMAIN seq}

\* ------------------------------------------- values of the valuation code
\* A value the valuation code computes with: a finite number, kept as the
\* exact fraction p/q in lowest terms, NaN, null, or a string of characters.
Num(p, q) ==
  LET g == GCD(Abs(p), q)
  IN [t |-> "number", p |-> p \div g, q |-> q \div g, s |-> <<>>]

NaN == [t |-> "NaN", p |-> 0, q |-> 1, s |-> <<>>]

Null == [t |-> "null", p |-> 0, q |-> 1, s |-> <<>>]

Str(chars) == [t |-> "string", p |-> 0, q |-> 1, s |-> chars]

\* a DECIMAL(12,2) attribute of a loaded instance, from the stored hundredths:
\* the driver hands the column over as text with two decimals
decimalAttr(h) ==
  IF h = NULL THEN Null
  ELSE Str(ToChars(h \div 100) \o <<46, 48 + ((h % 100) \div 10), 48 + (h % 10)>>)

\* StringToNumber for the digits, the point and a leading minus: the scan
\* keeps the digits read so far and how many of them follow the point
RECURSIVE scanDecimal(_, _, _, _, _)
scanDecimal(chars, mant, decs, seenPoint, seenDigit) ==
  IF chars = <<>>
    THEN IF seenDigit THEN Num(mant, Pow(10, decs)) ELSE NaN
  ELSE IF Head(chars) = 46
    THEN IF seenPoint THEN NaN
         ELSE scanDecimal(Tail(chars), mant, decs, TRUE, seenDigit)
  ELSE IF Head(chars) \in 48..57
    THEN scanDecimal(Tail(chars), 10 * mant + (Head(chars) - 48),
                     IF seenPoint THEN decs + 1 ELSE decs, seenPoint, TRUE)
  ELSE NaN

\* ToNumber
ToNumber(v) ==
  IF v.t = "number" THEN v
  ELSE IF v.t = "null" THEN Num(0, 1)
  ELSE IF v.t = "NaN" THEN NaN
  ELSE IF v.s = <<>> THEN Num(0, 1)
  ELSE IF Head(v.s) = 45
    THEN LET m == scanDecimal(Tail(v.s), 0, 0, FALSE, FALSE)
         IN IF m.t = "NaN" THEN NaN ELSE Num(0 - m.p, m.q)
  ELSE scanDecimal(v.s, 0, 0, FALSE, FALSE)

\* the first digits after the point of r/q, r < q
RECURSIVE fracChars(_, _, _)
fracChars(r, q, left) ==
  IF r = 0 \/ left = 0 THEN <<>>
  ELSE <<48 + ((10 * r) \div q)>> \o fracChars((10 * r) % q, q, left - 1)

\* ToString
ToStr(v) ==
  IF v.t = "string" THEN v.s
  ELSE IF v.t = "NaN" THEN <<78, 97, 78>>
  ELSE IF v.t = "null" THEN <<110, 117, 108, 108>>
  ELSE (IF v.p < 0 THEN <<45>> ELSE <<>>)
       \o ToChars(Abs(v.p) \div v.q)
       \o (IF v.q = 1 THEN <<>>
           ELSE <<46>> \o fracChars(Abs(v.p) % v.q, v.q, 17))

\* the operators + - * / : + joins the operands' texts as soon as one of them
\* is a string, the others convert strings to numbers
JsPlus(a, b) ==
  IF a.t = "string" \/ b.t = "string" THEN Str(ToStr(a) \o ToStr(b))
  ELSE LET x == ToNumber(a)
           y == ToNumber(b)
           g == GCD(x.q, y.q)
       IN IF x.t = "NaN" \/ y.t = "NaN" THEN NaN
          ELSE Num(x.p * (y.q \div g) + y.p * (x.q \div g), (x.q \div g) * y.q)

JsMinus(a, b) ==
  LET x == ToNumber(a)
      y == ToNumber(b)
      g == GCD(x.q, y.q)
  IN IF x.t = "NaN" \/ y.t = "NaN" THEN NaN
     ELSE Num(x.p * (y.q \div g) - y.p * (x.q \div g), (x.q \div g) * y.q)

\* the product of two fractions in lowest terms, the common factors taken
\* out before the multiplication
MulFrac(xp, xq, yp, yq) ==
  LET g1 == GCD(Abs(xp), yq)
      g2 == GCD(Abs(yp), xq)
  IN Num((xp \div g1) * (yp \div g2), (xq \div g2) * (yq \div g1))

JsTimes(a, b) ==
  LET x == ToNumber(a)
      y == ToNumber(b)
  IN IF x.t = "NaN" \/ y.t = "NaN" THEN NaN
     ELSE MulFrac(x.p, x.q, y.p, y.q)

\* a division by zero gives NaN or an infinity, neither of which is a number
\* any later step can bring back
JsDivide(a, b) ==
  LET x == ToNumber(a)
      y == ToNumber(b)
  IN IF x.t = "NaN" \/ y.t = "NaN" \/ y.p = 0 THEN NaN
     ELSE IF y.p < 0 THEN MulFrac(x.p, x.q, 0 - y.q, 0 - y.p)
     ELSE MulFrac(x.p, x.q, y.q, y.p)

\* Math.round: to the nearest integer, halves up
MathRound(a) ==
  LET x == ToNumber(a)
  IN IF x.t = "NaN" THEN NaN ELSE Num((2 * x.p + x.q) \div (2 * x.q), 1)

\* a > b
JsGreater(a, b) ==
  LET x == ToNumber(a)
      y == ToNumber(b)
      g == GCD(x.q, y.q)
  IN x.t = "number" /\ y.t = "number"
       /\ x.p * (y.q \div g) > y.p * (x.q \div g)

\* the test an if or an && makes of a value
isTruthy(v) ==
  \/ v.t = "string" /\ v.s # <<>>
  \/ v.t = "number" /\ v.p # 0

\* a || b
JsOr(a, b) == IF isTruthy(a) THEN a ELSE b

\* Math.min of two numbers
MathMin(a, b) == IF JsGreater(a, b) THEN b ELSE a

\* ------------------------------------------------------ product model
\* a projection that discounts where it should compound
calculateExpectedReturnDiscounted(product, amount) ==
  LET g == GCD(1200 + product.annual_yield, 1200)
      num == (1200 + product.annual_yield) \div g
      den == 1200 \div g
  IN RoundDiv(amount * 100 * Pow(den, product.tenure_months),
              Pow(num, product.tenure_months))

\* amount * (1 + annual_yield/100/12) ^ tenure_months, in hundredths as the
\* DECIMAL(12,2) column stores it
calculateExpectedReturn(product, amount) ==
  LET g == GCD(1200 + product.annual_yield, 1200)
      num == (1200 + product.annual_yield) \div g
      den == 1200 \div g
  IN RoundDiv(amount * 100 * Pow(num, product.tenure_months),
              Pow(den, product.tenure_months))

validateInvestmentAmount(amount, product) ==
  IF JsLess(amount, DbDecimal(product.min_investment))
    THEN "400 below minimum"
  ELSE IF product.max_investment # NULL
          /\ JsLess(DbDecimal(product.max_investment), amount)
    THEN "400 above maximum"
  ELSE "ok"

\* InvestmentProduct.findOne({ where: { id, is_active: true } })
findActiveProduct(pid) ==
  IF products[pid].is_active THEN <<products[pid]>> ELSE <<>>

\* ---------------------------------------------------- investment model
DaysPerMonth == 30

\* the clock counts half days
TicksPerDay == 2

addMonths(date, months) == date + months * DaysPerMonth * TicksPerDay

\* a DATEONLY column keeps the day and drops the time of day
dateOnly(date) == (date \div TicksPerDay) * TicksPerDay

\* Investment.build: column defaults of the model
buildInvestment(user_id, product_id, amount, notes) ==
  [user_id |-> user_id, product_id |-> product_id, amount |-> parseFloat(amount),
   invested_at |-> now, status |-> "active", expected_return |-> NULL,
   actual_return |-> NULL, maturity_date |-> NULL, notes |-> notes]

\* validate: { min: 0 } of Investment.amount, run by create on the instance
amountMin(investment) == investment.amount >= 0

\* hooks.beforeCreate, given the product row findByPk returned
beforeCreate(investment, product) ==
  [investment EXCEPT
     !.maturity_date =
        dateOnly(addMonths(investment.invested_at, product.tenure_months)),
     !.expected_return = calculateExpectedReturn(product, investment.amount)]

\* ------------------------------------------------------------ valuation
\* The instance methods of a loaded investment; at is the reading of the
\* clock that new Date() takes.
\* a valuation that never looks at the settlement
getCurrentValueUnsettled(investment, at) ==
  LET amount == decimalAttr(investment.amount * 100)
      expected_return == decimalAttr(investment.expected_return)
      totalDuration == investment.maturity_date - investment.invested_at
      elapsedDuration == at - investment.invested_at
  IN IF elapsedDuration <= 0 THEN amount
     ELSE IF elapsedDuration >= totalDuration THEN expected_return
     ELSE LET progress == Num(elapsedDuration, totalDuration)
              currentValue ==
                JsPlus(amount,
                       JsTimes(JsMinus(expected_return, amount), progress))
          IN JsDivide(MathRound(JsTimes(currentValue, Num(100, 1))), Num(100, 1))

getCurrentValue(investment, at) ==
  LET amount == decimalAttr(investment.amount * 100)
      expected_return == decimalAttr(investment.expected_return)
      actual_return == decimalAttr(investment.actual_return)
      totalDuration == investment.maturity_date - investment.invested_at
      elapsedDuration == at - investment.invested_at
  IN IF investment.status = "matured" /\ isTruthy(actual_return)
       THEN actual_return
     ELSE IF elapsedDuration <= 0 THEN amount
     ELSE IF elapsedDuration >= totalDuration THEN expected_return
     ELSE LET progress == Num(elapsedDuration, totalDuration)
              currentValue ==
                JsPlus(amount,
                       JsTimes(JsMinus(expected_return, amount), progress))
          IN JsDivide(MathRound(JsTimes(currentValue, Num(100, 1))), Num(100, 1))

getGainLoss(investment, at) ==
  LET amount == decimalAttr(investment.amount * 100)
      currentValue == getCurrentValue(investment, at)
  IN [absolute |-> JsMinus(currentValue, amount),
      percentage |-> JsTimes(JsDivide(JsMinus(currentValue, amount), amount),
                             Num(100, 1))]

\* x / y rounded down
FloorDiv(x, y) == x \div y

\* the smallest integer that is at least x / y, y > 0
CeilDiv(x, y) == 0 - ((0 - x) \div y)

Max(x, y) == IF x > y THEN x ELSE y

Min(x, y) == IF x < y THEN x ELSE y

\* a count that does not look at the status
getDaysToMaturityAnyStatus(investment, at) ==
  Max(0, CeilDiv(investment.maturity_date - at, TicksPerDay))

getDaysToMaturity(investment, at) ==
  IF investment.status = "matured" THEN 0
  ELSE LET diffTime == investment.maturity_date - at
           diffDays == CeilDiv(diffTime, TicksPerDay)
       IN Max(0, diffDays)

\* ------------------------------------------------------------ accounts
\* Texts are lists of character codes.
AdminGripinvest == <<97, 100, 109, 105, 110, 64, 103, 114, 105, 112, 105, 110, 118, 101, 115, 116, 46, 99, 111, 109>>

PrayasGripinvest == <<112, 114, 97, 121, 97, 115, 64, 103, 114, 105, 112, 105, 110, 118, 101, 115, 116, 46, 105, 110>>

JohnDoe == <<106, 111, 104, 110, 46, 100, 111, 101, 64, 101, 120, 97, 109, 112, 108, 101, 46, 99, 111, 109>>

TestExample == <<116, 101, 115, 116, 64, 101, 120, 97, 109, 112, 108, 101, 46, 99, 111, 109>>

\* String.prototype.includes
includes(text, pattern) ==
  \E k \in 0..(Len(text) - Len(pattern)) :
    SubSeq(text, k + 1, k + Len(pattern)) = pattern

\* normalizeEmail of the body validation: the address in lower case
normalizeEmail(text) ==
  [k \in DOMAIN text |-> IF text[k] \in 65..90 THEN text[k] + 32 ELSE text[k]]

\* the hash the model hook stores for a password
hashPassword(password) == <<"bcrypt", password>>

\* a row of users as User.createUser stores it
userRow(email, password) ==
  [email |-> email, password_hash |-> hashPassword(password),
   risk_appetite |-> "moderate", reset_token |-> NULL, reset_token_expires |-> NULL]

\* the accounts the database is seeded with, and the second ordinary user
SeededUsers ==
  [u \in {"admin", "u1", "u2"} |->
     IF u = "admin" THEN userRow(AdminGripinvest, "admin123")
     ELSE IF u = "u1" THEN userRow(JohnDoe, "user123")
     ELSE userRow(TestExample, "user123")]

\* ------------------------------------------------------------ requests
IdleReq ==
  [op |-> "none", pc |-> "idle", user |-> "none", id |-> UnknownId,
   product_id |-> "none", amount |-> JsNumber(0), notes |-> NullNotes,
   upd |-> [field |-> "none", value |-> 0],
   email |-> <<>>, password |-> "none", token |-> 0,
   product |-> <<>>, hookProduct |-> <<>>, instance |-> <<>>, res |-> "none",
   view |-> <<>>]

\* a handler that has responded: its locals are gone; who asked what of
\* which investment or for which amount, and the response, stay on record
Respond(req, res) ==
  [IdleReq EXCEPT !.pc = "done", !.op = req.op, !.user = req.user, !.id = req.id,
                  !.amount = req.amount, !.res = res]

\* the response of a handler that reports computed values
RespondWith(req, res, view) == [Respond(req, res) EXCEPT !.view = <<view>>]

\* slots are taken in order, so that two runs differing only in which slot
\* served which request are one run
CanStart(r) ==
  /\ reqs[r].pc = "idle"
  /\ \A q \in ReqIds : q < r => reqs[q].pc # "idle"

\* the catalog as seeded: one active product
SeededProduct ==
  [is_active |-> TRUE, tenure_months |-> 2, annual_yield |-> 12,
   min_investment |-> 10, max_investment |-> 100,
   investment_type |-> "bond", risk_level |-> "low"]

\* the row that POST /api/investments stores for u1 investing 50 in the
\* seeded product at time 0
EarlierInvestment ==
  LET draft == [user_id |-> "u1", product_id |-> "p1", amount |-> 50,
                invested_at |-> 0, status |-> "active", expected_return |-> NULL,
                actual_return |-> NULL, maturity_date |-> NULL, notes |-> NullNotes]
  IN beforeCreate(draft, SeededProduct)

\* no request is in progress; the ledger is empty, or holds one investment
\* placed earlier
Init ==
  /\ products = [p \in ProductIds |-> SeededProduct]
  /\ investments \in {<<>>, <<EarlierInvestment>>}
  /\ reqs = [r \in ReqIds |-> IdleReq]
  /\ now = 0
  /\ users = SeededUsers
  /\ issued = <<>>

\* ------------------------------------------------- POST /api/investments
\* the validation of the body, the product lookup and the synchronous amount
\* check that follows it
CreateLookup(r, u, pid, amount, notes) ==
  /\ CanStart(r)
  /\ LET found == findActiveProduct(pid)
         base == [IdleReq EXCEPT !.op = "create", !.user = u, !.product_id = pid,
                                 !.amount = amount, !.notes = notes]
     IN reqs' = [reqs EXCEPT ![r] =
          IF ~validAmount(amount)
            THEN Respond(base, "400 validation failed")
          ELSE IF found = <<>>
            THEN Respond(base, "404 product not found")
          ELSE IF validateInvestmentAmount(amount, found[1]) # "ok"
            THEN Respond(base, validateInvestmentAmount(amount, found[1]))
          ELSE [base EXCEPT !.pc = "create_hook", !.product = found]]
  /\ UNCHANGED <<users, issued, products, investments, now>>

\* Investment.create: build with the defaults, then beforeCreate reads the
\* product again by primary key
CreateHook(r) ==
  /\ reqs[r].pc = "create_hook"
  /\ LET req == reqs[r]
         product == products[req.product_id]
         draft == beforeCreate(
                    buildInvestment(req.user, req.product_id, req.amount, req.notes),
                    product)
     IN reqs' = [reqs EXCEPT ![r] =
          IF ~amountMin(draft) THEN Respond(req, "400 investment validation failed")
          ELSE [req EXCEPT !.pc = "create_insert", !.hookProduct = <<product>>,
                           !.instance = <<draft>>]]
  /\ UNCHANGED <<users, issued, products, investments, now>>

\* the INSERT, and the 201 response built from the row read back
CreateInsert(r) ==
  /\ reqs[r].pc = "create_insert"
  /\ investments' = Append(investments, reqs[r].instance[1])
  /\ reqs' = [reqs EXCEPT ![r] =
       Respond([reqs[r] EXCEPT !.id = Len(investments) + 1], "201")]
  /\ UNCHANGED <<users, issued, products, now>>

\* a lookup by id alone
findInvestmentAnyUser(id, user_id) ==
  IF id \in 1..Len(investments) THEN <<investments[id]>> ELSE <<>>

\* Investment.findOne({ where: { id, user_id } })
findInvestment(id, user_id) ==
  IF id \in 1..Len(investments) /\ investments[id].user_id = user_id
    THEN <<investments[id]>> ELSE <<>>

\* -------------------------------------------- GET /api/investments/:id
\* the calculated fields a handler adds to an investment it returns
enrich(investment, at) ==
  [current_value |-> getCurrentValue(investment, at),
   gain_loss |-> getGainLoss(investment, at),
   days_to_maturity |-> getDaysToMaturity(investment, at)]

GetInvestment(r, u, id) ==
  /\ CanStart(r)
  /\ LET found == findInvestment(id, u)
         base == [IdleReq EXCEPT !.op = "get", !.user = u, !.id = id]
     IN reqs' = [reqs EXCEPT ![r] =
          IF found = <<>> THEN Respond(base, "404 investment not found")
          ELSE RespondWith(base, "200", enrich(found[1], now))]
  /\ UNCHANGED <<users, issued, products, investments, now>>

\* ------------------------------------------------ portfolio aggregates
\* the ways a query may return the rows ids: every order of them
Orders(ids) ==
  {f \in [1..Cardinality(ids) -> ids] :
     \A i, j \in 1..Cardinality(ids) : i # j => f[i] # f[j]}

\* include: [{ model: InvestmentProduct, as: 'product' }] with an is_active
\* condition on the joined product
includeActiveProduct(investment) ==
  IF investment.product_id \in DOMAIN products
       /\ products[investment.product_id].is_active
    THEN <<products[investment.product_id]>> ELSE <<>>

\* include: [{ model: InvestmentProduct, as: 'product' }]: the product row
\* joined on its primary key
includeProduct(investment) ==
  IF investment.product_id \in DOMAIN products
    THEN <<products[investment.product_id]>> ELSE <<>>

\* Investment.findAll({ where: { user_id }, include }) without an order
findAllOfUser(user_id) ==
  Orders({i \in 1..Len(investments) : investments[i].user_id = user_id})

\* Investment.findByUser: the same rows, latest invested_at first
findByUser(user_id) ==
  {f \in findAllOfUser(user_id) :
     \A i, j \in DOMAIN f :
       i < j => investments[f[i]].invested_at >= investments[f[j]].invested_at}

\* parseFloat of the text of a DECIMAL column
parseFloatAttr(v) == ToNumber(v)

\* let total = 0; rows.forEach(row => { total += parseFloat(row.amount) })
RECURSIVE sumInvested(_)
sumInvested(rows) ==
  IF rows = <<>> THEN Num(0, 1)
  ELSE JsPlus(sumInvested(SubSeq(rows, 1, Len(rows) - 1)),
              parseFloatAttr(decimalAttr(rows[Len(rows)].amount * 100)))

\* let total = 0; rows.forEach(row => { total += row.getCurrentValue() })
RECURSIVE sumCurrent(_, _)
sumCurrent(rows, at) ==
  IF rows = <<>> THEN Num(0, 1)
  ELSE JsPlus(sumCurrent(SubSeq(rows, 1, Len(rows) - 1), at),
              getCurrentValue(rows[Len(rows)], at))

gainPercentage(currentValue, totalInvested) ==
  IF JsGreater(totalInvested, Num(0, 1))
    THEN JsTimes(JsDivide(JsMinus(currentValue, totalInvested), totalInvested),
                 Num(100, 1))
    ELSE Num(0, 1)

\* Investment.getUserPortfolioValue on the rows findByUser returned
getUserPortfolioValue(rows, at) ==
  LET totalInvested == sumInvested(rows)
      currentValue == sumCurrent(rows, at)
  IN [totalInvested |-> totalInvested,
      currentValue |-> currentValue,
      totalGain |-> JsMinus(currentValue, totalInvested),
      totalGainPercentage |-> gainPercentage(currentValue, totalInvested),
      investmentCount |-> Len(rows)]

\* a row loaded with its include: the investment's columns and, as product,
\* the joined product
withProduct(investment) ==
  investment @@ [product |-> includeProduct(investment)]

\* the rows of a query result, in the order the query gave
rowsOf(order) == [k \in DOMAIN order |-> withProduct(investments[order[k]])]

countStatus(rows, status) ==
  Cardinality({k \in DOMAIN rows : rows[k].status = status})

\* the rows of one group, in the order of the result
groupRows(rows, attr, value) ==
  SelectSeq(rows, LAMBDA row : row.product[1][attr] = value)

\* investmentsByType / investmentsByRisk of the statistics
groupStats(rows, attr, at) ==
  [value \in {rows[k].product[1][attr] : k \in DOMAIN rows} |->
     [count |-> Len(groupRows(rows, attr, value)),
      invested |-> sumInvested(groupRows(rows, attr, value)),
      current_value |-> sumCurrent(groupRows(rows, attr, value), at)]]

\* the body of GET /api/investments/stats/summary
statsSummary(rows, at) ==
  LET totalInvested == sumInvested(rows)
      currentValue == sumCurrent(rows, at)
      totalGain == JsMinus(currentValue, totalInvested)
  IN [total_invested |-> totalInvested,
      current_value |-> currentValue,
      total_gain |-> totalGain,
      total_gain_percentage |->
        IF JsGreater(totalInvested, Num(0, 1))
          THEN JsTimes(JsDivide(totalGain, totalInvested), Num(100, 1))
          ELSE Num(0, 1),
      total_investments |-> Len(rows),
      active_investments |-> countStatus(rows, "active"),
      matured_investments |-> countStatus(rows, "matured"),
      cancelled_investments |-> countStatus(rows, "cancelled"),
      by_type |-> groupStats(rows, "investment_type", at),
      by_risk |-> groupStats(rows, "risk_level", at)]

\* ------------------------------- GET /api/investments/stats/summary
\* reading investment.product.investment_type of a row whose product did not
\* resolve throws, and the handler answers 500
StatsSummary(r, u) ==
  /\ CanStart(r)
  /\ \E order \in findAllOfUser(u) :
       LET rows == rowsOf(order)
           base == [IdleReq EXCEPT !.op = "stats", !.user = u]
       IN reqs' = [reqs EXCEPT ![r] =
            IF \E k \in DOMAIN rows : rows[k].product = <<>>
              THEN Respond(base, "500")
            ELSE RespondWith(base, "200", statsSummary(rows, now))]
  /\ UNCHANGED <<users, issued, products, investments, now>>

\* ------------------------------------------------- GET /api/portfolio
\* typeDistribution / riskDistribution: the amounts invested per group
distribution(rows, attr) ==
  [value \in {rows[k].product[1][attr] : k \in DOMAIN rows} |->
     sumInvested(groupRows(rows, attr, value))]

\* the first query: Investment.getUserPortfolioValue
PortfolioValue(r, u) ==
  /\ CanStart(r)
  /\ \E order \in findByUser(u) :
       reqs' = [reqs EXCEPT ![r] =
         [IdleReq EXCEPT !.op = "portfolio", !.user = u, !.pc = "portfolio_list",
                         !.view = <<getUserPortfolioValue(rowsOf(order), now)>>]]
  /\ UNCHANGED <<users, issued, products, investments, now>>

\* the second query, the calculated fields of every row and the metrics
PortfolioList(r) ==
  /\ reqs[r].pc = "portfolio_list"
  /\ \E order \in findByUser(reqs[r].user) :
       LET rows == rowsOf(order)
           portfolioValue == reqs[r].view[1]
       IN reqs' = [reqs EXCEPT ![r] =
            IF \E k \in DOMAIN rows : rows[k].product = <<>>
              THEN Respond(reqs[r], "500")
            ELSE RespondWith(reqs[r], "200",
                   [portfolio_value |-> portfolioValue,
                    investments |-> [k \in DOMAIN rows |-> enrich(rows[k], now)],
                    active_investments_count |-> countStatus(rows, "active"),
                    matured_investments_count |-> countStatus(rows, "matured"),
                    average_investment_amount |->
                      IF portfolioValue.investmentCount > 0
                        THEN JsDivide(portfolioValue.totalInvested,
                                      Num(portfolioValue.investmentCount, 1))
                        ELSE Num(0, 1),
                    by_type |-> distribution(rows, "investment_type"),
                    by_risk |-> distribution(rows, "risk_level")])]
  /\ UNCHANGED <<users, issued, products, investments, now>>


\* ------------------------- GET /api/products/recommendations/for-me
\* the active products of a risk level
matchingProducts(risk) ==
  {k \in DOMAIN products : products[k].risk_level = risk /\ products[k].is_active}

\* a query that lists the products of the risk level whether active or not
getRecommendationsAnyProduct(risk, limit) ==
  {SubSeq(f, 1, Min(limit, Len(f))) :
     f \in {g \in Orders({k \in DOMAIN products : products[k].risk_level = risk}) :
              \A i, j \in DOMAIN g :
                i < j => products[g[i]].annual_yield >= products[g[j]].annual_yield}}

\* InvestmentProduct.getRecommendations: WHERE risk_level AND is_active
\* ORDER BY annual_yield DESC LIMIT limit; the order gives no column to
\* tell rows of equal yield apart, so the database returns them in any order
getRecommendations(risk, limit) ==
  {SubSeq(f, 1, Min(limit, Len(f))) :
     f \in {g \in Orders(matchingProducts(risk)) :
              \A i, j \in DOMAIN g :
                i < j => products[g[i]].annual_yield >= products[g[j]].annual_yield}}

\* Array.prototype.sort with (a, b) => b.annual_yield - a.annual_yield: stable,
\* an element moves in front of the ones of smaller yield only
RECURSIVE sortByYield(_)
sortByYield(list) ==
  IF list = <<>> THEN <<>>
  ELSE LET front == sortByYield(SubSeq(list, 1, Len(list) - 1))
           last == list[Len(list)]
           keep == Cardinality({k \in DOMAIN front :
                                  front[k].annual_yield >= last.annual_yield})
       IN SubSeq(front, 1, keep) \o <<last>> \o SubSeq(front, keep + 1, Len(front))

\* AIService.getFallbackRecommendations: the products the text names, in the
\* order of its paragraphs
getFallbackRecommendations(risk, list) ==
  LET filtered == SelectSeq(list, LAMBDA p : p.risk_level = risk)
      sorted == sortByYield(filtered)
  IN SubSeq(sorted, 1, Min(3, Len(sorted)))

\* the rows of a query result
productRows(order) == [k \in DOMAIN order |-> [id |-> order[k]] @@ products[order[k]]]

\* the first query
Recommend(r, u, risk, limit) ==
  /\ CanStart(r)
  /\ \E order \in getRecommendations(risk, limit) :
       reqs' = [reqs EXCEPT ![r] =
         [IdleReq EXCEPT !.op = "recommend", !.user = u, !.pc = "recommend_ai",
                         !.view = <<[products |-> productRows(order),
                                     user_risk_appetite |-> risk,
                                     limit |-> limit]>>]]
  /\ UNCHANGED <<users, issued, products, investments, now>>

\* the text of the recommendations: none when the generator is not
\* configured, the generator's, or the fallback's when the generator fails
Recommendations(r, generator) ==
  /\ reqs[r].pc = "recommend_ai"
  /\ LET data == reqs[r].view[1]
     IN reqs' = [reqs EXCEPT ![r] =
          RespondWith(reqs[r], "200",
            data @@ [ai_recommendations |->
              [kind |-> generator,
               products |-> IF generator = "fallback"
                              THEN getFallbackRecommendations(data.user_risk_appetite,
                                                              data.products)
                              ELSE <<>>]])]
  /\ UNCHANGED <<users, issued, products, investments, now>>

\* ------------------------------------ GET /api/portfolio/performance
\* the months the period reaches back; an unknown period counts as a year
periodMonths(period) ==
  CASE period = "1m" -> 1
    [] period = "3m" -> 3
    [] period = "6m" -> 6
    [] period = "1y" -> 12
    [] period = "2y" -> 24
    [] OTHER -> 12

\* startDate.setMonth(startDate.getMonth() - months)
startDateOf(period, at) == addMonths(at, 0 - periodMonths(period))

\* Investment.findAll({ where: { user_id, invested_at: { [Op.gte]: startDate } },
\* order: [['invested_at', 'ASC']] })
findAllSince(user_id, startDate) ==
  {f \in Orders({i \in 1..Len(investments) :
                   /\ investments[i].user_id = user_id
                   /\ investments[i].invested_at >= startDate}) :
     \A i, j \in DOMAIN f :
       i < j => investments[f[i]].invested_at <= investments[f[j]].invested_at}

\* the month of a date, counted from the month of instant 0; the handler
\* writes it as YYYY-MM, whose text order is the order of the months
monthKeyOf(date) == date \div (DaysPerMonth * TicksPerDay)

\* the rows of one month, in the order of the result
monthRows(rows, monthKey) ==
  SelectSeq(rows, LAMBDA row : monthKeyOf(row.invested_at) = monthKey)

\* monthlyData once forEach has gone through the rows
monthlyData(rows, at) ==
  [monthKey \in {monthKeyOf(rows[k].invested_at) : k \in DOMAIN rows} |->
     [date |-> monthKey,
      invested |-> sumInvested(monthRows(rows, monthKey)),
      current_value |-> sumCurrent(monthRows(rows, monthKey), at),
      count |-> Len(monthRows(rows, monthKey))]]

\* Object.keys(monthlyData).sort()
RECURSIVE sortKeys(_)
sortKeys(keys) ==
  IF keys = {} THEN <<>>
  ELSE LET first == CHOOSE k \in keys : \A other \in keys : k <= other
       IN <<first>> \o sortKeys(keys \ {first})

\* performanceData from the months monthKeys on, taken in that order, with the
\* running sums the loop holds when it reaches them
RECURSIVE performanceData(_, _, _, _)
performanceData(monthly, monthKeys, cumulativeInvested, cumulativeValue) ==
  IF monthKeys = <<>> THEN <<>>
  ELSE LET monthData == monthly[Head(monthKeys)]
       IN << [date |-> monthData.date,
              invested_amount |-> monthData.invested,
              current_value |-> monthData.current_value,
              cumulative_invested |-> JsPlus(cumulativeInvested, monthData.invested),
              cumulative_value |-> JsPlus(cumulativeValue, monthData.current_value),
              monthly_gain |-> JsMinus(monthData.current_value, monthData.invested),
              cumulative_gain |->
                JsMinus(JsPlus(cumulativeValue, monthData.current_value),
                        JsPlus(cumulativeInvested, monthData.invested)),
              investment_count |-> monthData.count] >>
          \o performanceData(monthly, Tail(monthKeys),
                             JsPlus(cumulativeInvested, monthData.invested),
                             JsPlus(cumulativeValue, monthData.current_value))

\* the summary of the response: the running sums after the last month
summaryOf(cumulativeInvested, cumulativeValue) ==
  [total_invested |-> cumulativeInvested,
   current_value |-> cumulativeValue,
   total_gain |-> JsMinus(cumulativeValue, cumulativeInvested),
   total_gain_percentage |->
     IF JsGreater(cumulativeInvested, Num(0, 1))
       THEN JsTimes(JsDivide(JsMinus(cumulativeValue, cumulativeInvested),
                             cumulativeInvested), Num(100, 1))
       ELSE Num(0, 1)]

\* the data of the response
performance(rows, period, at) ==
  LET monthly == monthlyData(rows, at)
      points == performanceData(monthly, sortKeys(DOMAIN monthly),
                                Num(0, 1), Num(0, 1))
  IN [period |-> period,
      performance_data |-> points,
      summary |->
        IF points = <<>> THEN summaryOf(Num(0, 1), Num(0, 1))
        ELSE summaryOf(points[Len(points)].cumulative_invested,
                       points[Len(points)].cumulative_value)]

Performance(r, u, period) ==
  /\ CanStart(r)
  /\ \E order \in findAllSince(u, startDateOf(period, now)) :
       reqs' = [reqs EXCEPT ![r] =
         RespondWith([IdleReq EXCEPT !.op = "performance", !.user = u], "200",
                     performance(rowsOf(order), period, now))]
  /\ UNCHANGED <<users, issued, products, investments, now>>

\* ------------------------------------- GET /api/portfolio/maturities
\* futureDate.setDate(futureDate.getDate() + parseInt(days))
futureDateOf(days, at) == at + days * TicksPerDay

\* a query that does not look at the status
findUpcomingAnyStatus(user_id, futureDate) ==
  {f \in Orders({i \in 1..Len(investments) :
                   /\ investments[i].user_id = user_id
                   /\ investments[i].maturity_date <= dateOnly(futureDate)}) :
     \A i, j \in DOMAIN f :
       i < j => investments[f[i]].maturity_date <= investments[f[j]].maturity_date}

\* Investment.findAll({ where: { user_id, status: 'active',
\* maturity_date: { [Op.lte]: futureDate } }, order: [['maturity_date', 'ASC']] });
\* the bound is compared with the DATEONLY column as a date
findUpcoming(user_id, futureDate) ==
  {f \in Orders({i \in 1..Len(investments) :
                   /\ investments[i].user_id = user_id
                   /\ investments[i].status = "active"
                   /\ investments[i].maturity_date <= dateOnly(futureDate)}) :
     \A i, j \in DOMAIN f :
       i < j => investments[f[i]].maturity_date <= investments[f[j]].maturity_date}

\* sum + parseFloat(inv.expected_return || inv.current_value) over the rows
RECURSIVE totalMaturityValue(_, _)
totalMaturityValue(rows, at) ==
  IF rows = <<>> THEN Num(0, 1)
  ELSE JsPlus(totalMaturityValue(SubSeq(rows, 1, Len(rows) - 1), at),
              parseFloatAttr(JsOr(decimalAttr(rows[Len(rows)].expected_return),
                                  getCurrentValue(rows[Len(rows)], at))))

\* the data of the response: every row with its id and its calculated fields
upcomingMaturities(order, days, at) ==
  [period_days |-> days,
   upcoming_maturities |->
     [k \in DOMAIN order |->
        [id |-> order[k]] @@ investments[order[k]] @@ enrich(investments[order[k]], at)],
   summary |-> [count |-> Len(order),
                total_maturity_value |-> totalMaturityValue(rowsOf(order), at)]]

Maturities(r, u, days) ==
  /\ CanStart(r)
  /\ \E order \in findUpcoming(u, futureDateOf(days, now)) :
       reqs' = [reqs EXCEPT ![r] =
         RespondWith([IdleReq EXCEPT !.op = "maturities", !.user = u], "200",
                     upcomingMaturities(order, days, now))]
  /\ UNCHANGED <<users, issued, products, investments, now>>

\* ------------------------------------- GET /api/portfolio/allocation
\* Investment.findAll({ where: { user_id, status: 'active' }, include })
findAllActiveOfUser(user_id) ==
  Orders({i \in 1..Len(investments) :
            investments[i].user_id = user_id /\ investments[i].status = "active"})

tenureRange(tenure) ==
  IF tenure <= 12 THEN "0-12 months"
  ELSE IF tenure <= 24 THEN "13-24 months"
  ELSE IF tenure <= 36 THEN "25-36 months"
  ELSE "37+ months"

\* the key under which a row counts on one axis of the breakdown
allocationKey(row, axis) ==
  IF axis = "by_type" THEN row.product[1].investment_type
  ELSE IF axis = "by_risk" THEN row.product[1].risk_level
  ELSE tenureRange(row.product[1].tenure_months)

\* allocation[key] = (allocation[key] || 0) + currentValue
addTo(allocation, key, currentValue) ==
  IF key \in DOMAIN allocation
    THEN [allocation EXCEPT ![key] = JsPlus(JsOr(@, Num(0, 1)), currentValue)]
    ELSE [k \in DOMAIN allocation \cup {key} |->
            IF k = key THEN JsPlus(Num(0, 1), currentValue) ELSE allocation[k]]

\* the object one axis has become once forEach has gone through the rows
RECURSIVE allocate(_, _, _)
allocate(rows, axis, at) ==
  IF rows = <<>> THEN [k \in {} |-> Num(0, 1)]
  ELSE addTo(allocate(SubSeq(rows, 1, Len(rows) - 1), axis, at),
             allocationKey(rows[Len(rows)], axis),
             getCurrentValue(rows[Len(rows)], at))

convertToPercentages(allocation, totalValue) ==
  [key \in DOMAIN allocation |->
     [value |-> allocation[key],
      percentage |->
        IF JsGreater(totalValue, Num(0, 1))
          THEN JsTimes(JsDivide(allocation[key], totalValue), Num(100, 1))
          ELSE Num(0, 1)]]

\* a score that weighs types and risk levels alike
calculateDiversificationScoreEvenWeights(typeAllocation, riskAllocation) ==
  LET typeCount == Cardinality(DOMAIN typeAllocation)
      riskCount == Cardinality(DOMAIN riskAllocation)
  IN MathRound(JsPlus(JsTimes(MathMin(Num(typeCount, 5), Num(1, 1)), Num(50, 1)),
                      JsTimes(MathMin(Num(riskCount, 3), Num(1, 1)), Num(50, 1))))

calculateDiversificationScore(typeAllocation, riskAllocation) ==
  LET typeCount == Cardinality(DOMAIN typeAllocation)
      riskCount == Cardinality(DOMAIN riskAllocation)
      maxTypes == 5
      maxRisks == 3
      typeScore == JsTimes(MathMin(Num(typeCount, maxTypes), Num(1, 1)), Num(60, 1))
      riskScore == JsTimes(MathMin(Num(riskCount, maxRisks), Num(1, 1)), Num(40, 1))
  IN MathRound(JsPlus(typeScore, riskScore))

\* the data of the response
allocationBreakdown(rows, at) ==
  LET totalValue == sumCurrent(rows, at)
      typeAllocation == allocate(rows, "by_type", at)
      riskAllocation == allocate(rows, "by_risk", at)
      tenureAllocation == allocate(rows, "by_tenure", at)
  IN [total_portfolio_value |-> totalValue,
      by_type |-> convertToPercentages(typeAllocation, totalValue),
      by_risk |-> convertToPercentages(riskAllocation, totalValue),
      by_tenure |-> convertToPercentages(tenureAllocation, totalValue),
      diversification_score |->
        calculateDiversificationScore(typeAllocation, riskAllocation)]

\* reading investment.product.investment_type of a row whose product did not
\* resolve throws, and the handler answers 500
Allocation(r, u) ==
  /\ CanStart(r)
  /\ \E order \in findAllActiveOfUser(u) :
       LET rows == rowsOf(order)
           base == [IdleReq EXCEPT !.op = "allocation", !.user = u]
       IN reqs' = [reqs EXCEPT ![r] =
            IF \E k \in DOMAIN rows : rows[k].product = <<>>
              THEN Respond(base, "500")
            ELSE RespondWith(base, "200", allocationBreakdown(rows, now))]
  /\ UNCHANGED <<users, issued, products, investments, now>>

\* instance.update(values) issues UPDATE ... SET <the given columns> WHERE id:
\* of the instance the handler holds only the given columns reach the row
\* a save of every column of the instance the handler holds
updateNotesRowSaveAll(row, instance, notes) == [instance EXCEPT !.notes = notes]

updateNotesRow(row, instance, notes) == [row EXCEPT !.notes = notes]

\* a cancel that also wipes the projection
updateStatusRowClearing(row, instance, status) ==
  [row EXCEPT !.status = status, !.expected_return = NULL]

updateStatusRow(row, instance, status) == [row EXCEPT !.status = status]

\* -------------------------------------- PUT /api/investments/:id/notes
\* a notes update that is refused once the investment is no longer active
NotesReadActiveOnly(r, u, id, notes) ==
  /\ CanStart(r)
  /\ LET found == findInvestment(id, u)
         base == [IdleReq EXCEPT !.op = "notes", !.user = u, !.id = id,
                                 !.notes = notes, !.instance = found]
     IN reqs' = [reqs EXCEPT ![r] =
          IF found = <<>>
            THEN Respond(base, "404 investment not found")
          ELSE IF found[1].status # "active"
            THEN Respond(base, "400 not active")
          ELSE [base EXCEPT !.pc = "notes_write"]]
  /\ UNCHANGED <<users, issued, products, investments, now>>

NotesRead(r, u, id, notes) ==
  /\ CanStart(r)
  /\ LET found == findInvestment(id, u)
         base == [IdleReq EXCEPT !.op = "notes", !.user = u, !.id = id,
                                 !.notes = notes, !.instance = found]
     IN reqs' = [reqs EXCEPT ![r] =
          IF found = <<>>
            THEN Respond(base, "404 investment not found")
          ELSE [base EXCEPT !.pc = "notes_write"]]
  /\ UNCHANGED <<users, issued, products, investments, now>>

NotesWrite(r) ==
  /\ reqs[r].pc = "notes_write"
  /\ investments' = [investments EXCEPT ![reqs[r].id] =
       updateNotesRow(investments[reqs[r].id], reqs[r].instance[1], reqs[r].notes)]
  /\ reqs' = [reqs EXCEPT ![r] =
       Respond(reqs[r], "200")]
  /\ UNCHANGED <<users, issued, products, now>>

\* ------------------------------------- PUT /api/investments/:id/cancel
\* a check that forgets the matured case
cancelCheckNoMatured(investment) ==
  IF investment.status = "cancelled" THEN "400 already cancelled" ELSE "ok"

\* the status checks the handler makes on the instance it has read
cancelCheck(investment) ==
  IF investment.status = "matured" THEN "400 already matured"
  ELSE IF investment.status = "cancelled" THEN "400 already cancelled"
  ELSE "ok"

CancelRead(r, u, id) ==
  /\ CanStart(r)
  /\ LET found == findInvestment(id, u)
         base == [IdleReq EXCEPT !.op = "cancel", !.user = u, !.id = id,
                                 !.instance = found]
     IN reqs' = [reqs EXCEPT ![r] =
          IF found = <<>>
            THEN Respond(base, "404 investment not found")
          ELSE IF cancelCheck(found[1]) # "ok"
            THEN Respond(base, cancelCheck(found[1]))
          ELSE [base EXCEPT !.pc = "cancel_write"]]
  /\ UNCHANGED <<users, issued, products, investments, now>>

CancelWrite(r) ==
  /\ reqs[r].pc = "cancel_write"
  /\ investments' = [investments EXCEPT ![reqs[r].id] =
       updateStatusRow(investments[reqs[r].id], reqs[r].instance[1], "cancelled")]
  /\ reqs' = [reqs EXCEPT ![r] =
       Respond(reqs[r], "200")]
  /\ UNCHANGED <<users, issued, products, now>>

\* ------------------------------------------------ external settlement
\* the maturity-settlement process: a conditional single-row update that
\* records actual_return and moves an active investment to matured
settleRow(row, actual_return) ==
  [row EXCEPT !.status = "matured", !.actual_return = actual_return]

Settle(i) ==
  /\ i \in 1..Len(investments)
  /\ investments[i].status = "active"
  /\ investments' = [investments EXCEPT ![i] =
       settleRow(investments[i], investments[i].expected_return)]
  /\ UNCHANGED <<users, issued, products, reqs, now>>

\* ----------------------------------------------- product administration
\* the request bodies of PUT /api/products/:id that are tried
ProductUpdates ==
  { [field |-> "tenure_months", value |-> 1],
    [field |-> "annual_yield", value |-> 24],
    [field |-> "min_investment", value |-> 60],
    [field |-> "max_investment", value |-> 40] }

\* a DECIMAL attribute of a loaded instance as JavaScript sees it: the number
\* just set from the request body, else the driver's string, else null
attrValue(row, upd, field) ==
  IF upd.field = field THEN JsNumber(upd.value)
  ELSE IF row[field] = NULL THEN JsNumber(NULL)
  ELSE DbDecimal(row[field])

truthy(v) == IF v.t = "string" THEN v.s # <<>> ELSE v.n # NULL /\ v.n # 0

\* the model-wide validator of InvestmentProduct, run by every save of an
\* instance on the values the instance holds
maxInvestmentGreaterThanMin(row, upd) ==
  ~( /\ truthy(attrValue(row, upd, "max_investment"))
     /\ JsLessEq(attrValue(row, upd, "max_investment"),
                 attrValue(row, upd, "min_investment")) )

updateProductRow(row, upd) ==
  IF upd.field = "is_active" THEN [row EXCEPT !.is_active = FALSE]
  ELSE [row EXCEPT ![upd.field] = upd.value]

\* a request without a token
Anonymous == "anonymous"

\* authenticateToken: the user the token names, when the request carries a
\* token and the user exists
authenticateToken(caller) == caller # Anonymous /\ caller \in DOMAIN users

AdminWord == <<97, 100, 109, 105, 110>>

adminEmails == {AdminGripinvest, PrayasGripinvest}

\* requireAdmin grants every user, which weakens isAdmin to TRUE
isAdminAnyUser(email) == TRUE

\* the admin rule of requireAdmin: a listed address, or one containing 'admin'
isAdmin(email) == email \in adminEmails \/ includes(email, AdminWord)

\* the answer of authenticateToken followed by requireAdmin; "next" hands the
\* request on
requireAdmin(caller) ==
  IF ~authenticateToken(caller) THEN "401"
  ELSE IF ~isAdmin(users[caller].email) THEN "403 Admin access required"
  ELSE "next"

\* isFloat({ min: 0 }), isInt({ min: 1, max: 600 }) and
\* isFloat({ min: 0, max: 100 }) of the product rules, on one field of a body
productFieldValid(field, value) ==
  IF field \in {"min_investment", "max_investment"} THEN value >= 0
  ELSE IF field = "tenure_months" THEN value >= 1 /\ value <= 600
  ELSE IF field = "annual_yield" THEN value >= 0 /\ value <= 100
  ELSE TRUE

\* handleValidationErrors
ValidationFailed == "400 Validation failed"

\* the middleware of the admin routes, then InvestmentProduct.findByPk(id) of
\* the update and the delete handler
ProductRead(r, caller, pid, op, upd) ==
  /\ CanStart(r)
  /\ LET gate == requireAdmin(caller)
         req == [IdleReq EXCEPT !.op = op, !.user = caller, !.product_id = pid,
                                !.upd = upd]
     IN reqs' = [reqs EXCEPT ![r] =
          IF gate # "next" THEN Respond(req, gate)
          ELSE IF ~productFieldValid(upd.field, upd.value)
            THEN Respond(req, ValidationFailed)
          ELSE [req EXCEPT !.product = <<products[pid]>>,
                           !.pc = "product_write"]]
  /\ UNCHANGED <<users, issued, products, investments, now>>

\* product.update(values): validation on the instance, then the UPDATE of the
\* given columns
ProductWrite(r) ==
  /\ reqs[r].pc = "product_write"
  /\ LET req == reqs[r]
         valid == maxInvestmentGreaterThanMin(req.product[1], req.upd)
     IN /\ products' = IF valid
             THEN [products EXCEPT ![req.product_id] =
                     updateProductRow(products[req.product_id], req.upd)]
             ELSE products
        /\ reqs' = [reqs EXCEPT ![r] =
             Respond(req, IF valid THEN "200"
                          ELSE IF req.op = "product_update" THEN "400 validation failed"
                          ELSE "500")]
  /\ UNCHANGED <<users, issued, investments, now>>

\* how many products are created
MaxCreated == 1

\* the ids the created products get, in the order of their creation
NewProductIds == <<"p2", "p3", "p4", "p5">>

\* the body of POST /api/products: the two limits vary, NULL is a limit the
\* body leaves out
buildProduct(body) ==
  [is_active |-> TRUE, tenure_months |-> 2, annual_yield |-> 12,
   min_investment |-> body.min_investment,
   max_investment |-> body.max_investment,
   investment_type |-> "bond", risk_level |-> "low"]

\* validationRules.createProduct: min_investment is required, max_investment
\* optional
createProductValid(body) ==
  /\ body.min_investment # NULL
  /\ productFieldValid("min_investment", body.min_investment)
  /\ body.max_investment # NULL =>
       productFieldValid("max_investment", body.max_investment)

\* the validators of a built instance: min 0 on both limits, then the
\* model-wide validator on the numbers of the body
validateProduct(instance) ==
  /\ instance.min_investment >= 0
  /\ instance.max_investment # NULL => instance.max_investment >= 0
  /\ ~( /\ truthy(JsNumber(instance.max_investment))
        /\ JsLessEq(JsNumber(instance.max_investment),
                    JsNumber(instance.min_investment)) )

\* POST /api/products: the middleware, then InvestmentProduct.create(body)
ProductCreate(r, caller, body) ==
  /\ CanStart(r)
  /\ Cardinality(DOMAIN products \cap Range(NewProductIds)) < MaxCreated
  /\ LET created == Cardinality(DOMAIN products \cap Range(NewProductIds))
         gate == requireAdmin(caller)
         req == [IdleReq EXCEPT !.op = "product_create", !.user = caller]
         valid == /\ gate = "next"
                  /\ createProductValid(body)
                  /\ validateProduct(buildProduct(body))
     IN /\ products' = IF valid
             THEN (NewProductIds[created + 1] :> buildProduct(body)) @@ products
             ELSE products
        /\ reqs' = [reqs EXCEPT ![r] =
             Respond(req, IF gate # "next" THEN gate
                          ELSE IF valid THEN "201" ELSE ValidationFailed)]
  /\ UNCHANGED <<users, issued, investments, now>>

\* GET /api/products/admin/statistics: the middleware, then the two counts
AdminStatistics(r, caller) ==
  /\ CanStart(r)
  /\ LET gate == requireAdmin(caller)
         req == [IdleReq EXCEPT !.op = "product_statistics", !.user = caller]
         counts ==
           [total_active_products |->
              Cardinality({p \in DOMAIN products : products[p].is_active}),
            total_inactive_products |->
              Cardinality({p \in DOMAIN products : ~products[p].is_active})]
     IN reqs' = [reqs EXCEPT ![r] =
          IF gate # "next" THEN Respond(req, gate)
          ELSE RespondWith(req, "200", counts)]
  /\ UNCHANGED <<users, issued, products, investments, now>>

\* ------------------------------------------- signup and password reset
\* how many users sign up
MaxSignups == 2

\* the ids the registered users get, in the order of their registration
NewUserIds == <<"n1", "n2", "n3", "n4">>

\* User.findByEmail
findByEmail(email) == {u \in DOMAIN users : users[u].email = email}

\* POST /api/auth/signup up to the answer of User.findByEmail
SignupLookup(r, email, password) ==
  /\ CanStart(r)
  /\ Cardinality(DOMAIN users \cap Range(NewUserIds))
       + Cardinality({q \in ReqIds : reqs[q].pc = "signup_create"}) < MaxSignups
  /\ LET req == [IdleReq EXCEPT !.op = "signup", !.email = normalizeEmail(email),
                                !.password = password]
     IN reqs' = [reqs EXCEPT ![r] =
          IF findByEmail(req.email) # {}
            THEN [Respond(req, "409 User already exists") EXCEPT !.email = req.email]
          ELSE [req EXCEPT !.pc = "signup_create"]]
  /\ UNCHANGED <<users, issued, products, investments, now>>

\* User.createUser: the INSERT, which the UNIQUE constraint on email refuses
\* for an address that is stored by now; the handler answers any error with
\* 500 'Registration failed'
SignupCreate(r) ==
  /\ reqs[r].pc = "signup_create"
  /\ LET req == reqs[r]
         registered == Cardinality(DOMAIN users \cap Range(NewUserIds))
         id == NewUserIds[registered + 1]
         unique == findByEmail(req.email) = {}
     IN /\ users' = IF unique
             THEN (id :> userRow(req.email, req.password)) @@ users
             ELSE users
        /\ reqs' = [reqs EXCEPT ![r] =
             [Respond([req EXCEPT !.user = IF unique THEN id ELSE "none"],
                      IF unique THEN "201" ELSE "500 Registration failed")
              EXCEPT !.email = req.email]]
  /\ UNCHANGED <<issued, products, investments, now>>

\* how many reset tokens are issued
MaxTokens == 2

\* the clock of the reset tokens counts hours
HoursPerTick == 12

nowHours(at) == at * HoursPerTick

\* new Date(Date.now() + 3600000)
resetTokenExpires(at) == nowHours(at) + 1

\* POST /api/auth/forgot-password up to the answer of User.findByEmail
ForgotLookup(r, email) ==
  /\ CanStart(r)
  /\ Len(issued) + Cardinality({q \in ReqIds : reqs[q].pc = "forgot_write"})
       < MaxTokens
  /\ LET req == [IdleReq EXCEPT !.op = "forgot", !.email = normalizeEmail(email)]
         found == findByEmail(req.email)
     IN reqs' = [reqs EXCEPT ![r] =
          IF found = {} THEN Respond(req, "200")
          ELSE [req EXCEPT !.user = CHOOSE u \in found : TRUE,
                           !.pc = "forgot_write"]]
  /\ UNCHANGED <<users, issued, products, investments, now>>

\* crypto.randomBytes(32): a token that was never issued before; then
\* user.update({ reset_token, reset_token_expires })
ForgotWrite(r) ==
  /\ reqs[r].pc = "forgot_write"
  /\ LET req == reqs[r]
         resetToken == Len(issued) + 1
     IN /\ users' = [users EXCEPT ![req.user] =
             [@ EXCEPT !.reset_token = resetToken,
                       !.reset_token_expires = resetTokenExpires(now)]]
        /\ issued' = Append(issued, [user |-> req.user, at |-> now])
        /\ reqs' = [reqs EXCEPT ![r] =
             [Respond(req, "200") EXCEPT !.token = resetToken]]
  /\ UNCHANGED <<products, investments, now>>

\* User.findOne({ where: { reset_token: token, reset_token_expires > now } })
findByResetToken(token, at) ==
  {u \in DOMAIN users :
     /\ users[u].reset_token = token
     /\ users[u].reset_token_expires # NULL
     /\ users[u].reset_token_expires > nowHours(at)}

\* POST /api/auth/reset-password up to the answer of User.findOne
ResetLookup(r, token, password) ==
  /\ CanStart(r)
  /\ LET req == [IdleReq EXCEPT !.op = "reset", !.token = token,
                                !.password = password]
         found == findByResetToken(token, now)
     IN reqs' = [reqs EXCEPT ![r] =
          IF found = {}
            THEN [Respond(req, "400 Invalid or expired token")
                  EXCEPT !.token = token]
          ELSE [req EXCEPT !.user = CHOOSE u \in found : TRUE,
                           !.pc = "reset_write"]]
  /\ UNCHANGED <<users, issued, products, investments, now>>

\* user.update({ password_hash, reset_token: null, reset_token_expires: null })
\* on the instance that was found: an UPDATE by id
resetRow(row, token, password) ==
  [row EXCEPT !.password_hash = hashPassword(password),
              !.reset_token = NULL, !.reset_token_expires = NULL]

\* POST /api/auth/reset-password from the answer of User.findOne on
ResetWrite(r) ==
  /\ reqs[r].pc = "reset_write"
  /\ LET req == reqs[r]
     IN /\ users' = [users EXCEPT ![req.user] =
             resetRow(@, req.token, req.password)]
        /\ reqs' = [reqs EXCEPT ![r] =
             [Respond(req, "200") EXCEPT !.token = req.token,
                                         !.password = req.password]]
  /\ UNCHANGED <<issued, products, investments, now>>

Tick ==
  /\ now + 1 \in Instants
  /\ now' = now + 1
  /\ UNCHANGED <<users, issued, products, investments, reqs>>

TargetIds == (1..Len(investments)) \cup {UnknownId}

Next ==
  \/ \E r \in ReqIds, u \in Users, pid \in ProductIds, a \in AmountInputs :
       CreateLookup(r, u, pid, a, NullNotes)
  \/ \E r \in ReqIds : CreateHook(r)
  \/ \E r \in ReqIds : CreateInsert(r)
  \/ \E r \in ReqIds, u \in Users, id \in TargetIds : GetInvestment(r, u, id)
  \/ \E r \in ReqIds, u \in Users, id \in TargetIds, n \in NoteValues :
       NotesRead(r, u, id, n)
  \/ \E r \in ReqIds : NotesWrite(r)
  \/ \E r \in ReqIds, u \in Users, id \in TargetIds : CancelRead(r, u, id)
  \/ \E r \in ReqIds : CancelWrite(r)
  \/ \E i \in 1..Len(investments) : Settle(i)
  \/ \E r \in ReqIds, pid \in ProductIds, upd \in ProductUpdates :
       ProductRead(r, "admin", pid, "product_update", upd)
  \/ \E r \in ReqIds, pid \in ProductIds :
       ProductRead(r, "admin", pid, "product_delete",
                   [field |-> "is_active", value |-> 0])
  \/ \E r \in ReqIds : ProductWrite(r)
  \/ Tick

Spec == Init /\ [][Next]_vars

\* ------------------------------------------------- placing investments
\* Create requests with any amount, on a product whose minimum may be zero.
MinValues == {0, 10}

AnyAmountInputs == AmountInputs \cup {JsNumber(0), JsString(0), JsNumber(0 - 5)}

CreateInit ==
  /\ products \in
       [ProductIds -> {[SeededProduct EXCEPT !.min_investment = m] : m \in MinValues}]
  /\ investments = <<>>
  /\ reqs = [r \in ReqIds |-> IdleReq]
  /\ now = 0
  /\ users = SeededUsers
  /\ issued = <<>>

CreateNext ==
  \/ \E r \in ReqIds, u \in Users, pid \in ProductIds, a \in AnyAmountInputs :
       CreateLookup(r, u, pid, a, NullNotes)
  \/ \E r \in ReqIds : CreateHook(r)
  \/ \E r \in ReqIds : CreateInsert(r)
  \/ Tick

CreateSpec == CreateInit /\ [][CreateNext]_vars

\* ---------------------------------------------- valuing one investment
\* One stored investment, read again and again while the clock advances.
YieldValues == {0, 12}

TenureValues == {1, 2}

HeldAmount == 50

\* the instants at which the ledger is read: around the purchase, in the
\* middle of the holding period and around the maturity date
ValInstants == {0, 1, 2, 3, 59, 60, 61, 117, 118, 119, 120, 121}

\* the row POST /api/investments stored at time at
placed(user_id, product_id, at, product) ==
  beforeCreate([user_id |-> user_id, product_id |-> product_id,
                amount |-> HeldAmount, invested_at |-> at, status |-> "active",
                expected_return |-> NULL, actual_return |-> NULL,
                maturity_date |-> NULL, notes |-> NullNotes],
               product)

\* what has become of a stored row since: nothing, a cancel, or a settlement
\* with no, a zero or the projected return
rowStates(row) ==
  {row, updateStatusRow(row, row, "cancelled")}
    \cup {settleRow(row, a) : a \in {NULL, 0, row.expected_return}}

ValInit ==
  /\ products \in
       [ProductIds -> {[SeededProduct EXCEPT !.annual_yield = y, !.tenure_months = m] :
                         y \in YieldValues, m \in TenureValues}]
  /\ \E u \in Users, pid \in ProductIds, at \in Instants :
       /\ investments \in
            {<<row>> : row \in rowStates(placed(u, pid, at, products[pid]))}
       /\ now = at
  /\ reqs = [r \in ReqIds |-> IdleReq]
  /\ users = SeededUsers
  /\ issued = <<>>

\* no request is being served
Quiet == \A q \in ReqIds : reqs[q].pc = "idle"

\* the response has been sent and the slot serves again
Release(r) ==
  /\ reqs[r].pc = "done"
  /\ reqs' = [reqs EXCEPT ![r] = IdleReq]
  /\ UNCHANGED <<users, issued, products, investments, now>>

Advance ==
  /\ \E t \in ValInstants : t > now /\ now' = t
  /\ UNCHANGED <<users, issued, products, investments, reqs>>

ValNext ==
  \/ \E r \in ReqIds, u \in Users, id \in TargetIds :
       Quiet /\ GetInvestment(r, u, id)
  \/ \E r \in ReqIds : Release(r)
  \/ Advance

ValSpec == ValInit /\ [][ValNext]_vars

\* ------------------------------------------------ reading a portfolio
\* A ledger that already holds investments of both users, whose aggregates
\* are read while the clock advances.
MaxHeld == 2

\* the rows the k-th investment of the ledger may be: placed by either user
\* on tick k - 1
heldRows(k, catalog) ==
  UNION {rowStates(placed(u, pid, k - 1, catalog[pid])) :
           u \in Users, pid \in ProductIds}

ledgers(n, catalog) ==
  {f \in [1..n -> UNION {heldRows(k, catalog) : k \in 1..n}] :
     \A k \in 1..n : f[k] \in heldRows(k, catalog)}

PortfolioInit ==
  /\ products = [p \in ProductIds |-> SeededProduct]
  /\ \E n \in 0..MaxHeld :
       /\ investments \in ledgers(n, products)
       /\ now = IF n = 0 THEN 0 ELSE n - 1
  /\ reqs = [r \in ReqIds |-> IdleReq]
  /\ users = SeededUsers
  /\ issued = <<>>

PortfolioNext ==
  \/ \E r \in ReqIds, u \in Users : Quiet /\ StatsSummary(r, u)
  \/ \E r \in ReqIds, u \in Users : Quiet /\ PortfolioValue(r, u)
  \/ \E r \in ReqIds : PortfolioList(r)
  \/ \E r \in ReqIds : Release(r)
  \/ Advance

PortfolioSpec == PortfolioInit /\ [][PortfolioNext]_vars

\* --------------------------------------------- reading an allocation
\* A catalog with products of every type, risk level and tenure range, and a
\* ledger of u1's investments in them, some of them cancelled.
MaxAlloc == 3

InvestmentTypes == <<"bond", "fd", "mf", "etf", "other">>

RiskLevels == <<"low", "moderate", "high">>

\* the tenures on both sides of every boundary of the tenure ranges, and a
\* short one
TenureSteps == <<12, 13, 24, 25, 36, 37, 2>>

\* the k-th product of the catalog; the long products pay no interest
catalogProduct(k) ==
  [is_active |-> TRUE, tenure_months |-> TenureSteps[k],
   annual_yield |-> IF TenureSteps[k] <= 2 THEN 12 ELSE 0,
   min_investment |-> 10, max_investment |-> 100,
   investment_type |-> InvestmentTypes[((k - 1) % Len(InvestmentTypes)) + 1],
   risk_level |-> RiskLevels[((k - 1) % Len(RiskLevels)) + 1]]

Catalog == [k \in DOMAIN TenureSteps |-> catalogProduct(k)]

\* the rows the j-th investment of the ledger may be: placed by u1 on tick
\* j - 1 in any product, or placed in the first product and cancelled since
allocRows(j) ==
  {placed("u1", k, j - 1, Catalog[k]) : k \in DOMAIN Catalog}
    \cup {updateStatusRow(placed("u1", 1, j - 1, Catalog[1]),
                          placed("u1", 1, j - 1, Catalog[1]), "cancelled")}

AllocInit ==
  /\ products = Catalog
  /\ \E n \in 0..MaxAlloc :
       /\ investments \in
            {f \in [1..n -> UNION {allocRows(j) : j \in 1..n}] :
               \A j \in 1..n : f[j] \in allocRows(j)}
       /\ now = IF n = 0 THEN 0 ELSE n - 1
  /\ reqs = [r \in ReqIds |-> IdleReq]
  /\ users = SeededUsers
  /\ issued = <<>>

AllocNext ==
  \/ \E r \in ReqIds, u \in Users : Quiet /\ Allocation(r, u)
  \/ \E r \in ReqIds : Release(r)
  \/ Advance

AllocSpec == AllocInit /\ [][AllocNext]_vars

\* ------------------------------------------ reading a performance
\* A ledger of investments placed in two calendar months, whose series are
\* read over one month and over three while the clock advances.
MaxPerf == 3

\* the instants at which the investments of the ledger were placed: two in
\* the first month, the others in the second
PlacedAt(j) == IF j = 1 THEN 0 ELSE IF j = 2 THEN 59 ELSE 59 + j

Periods == {"1m", "3m"}

PerfInit ==
  /\ products = [p \in ProductIds |-> SeededProduct]
  /\ \E n \in 0..MaxPerf :
       /\ investments \in
            {f \in [1..n -> UNION {rowStates(placed(u, pid, PlacedAt(j), products[pid])) :
                                    u \in Users, pid \in ProductIds, j \in 1..n}] :
               \A j \in 1..n : f[j].invested_at = PlacedAt(j)}
       /\ now = IF n = 0 THEN 0 ELSE PlacedAt(n)
  /\ reqs = [r \in ReqIds |-> IdleReq]
  /\ users = SeededUsers
  /\ issued = <<>>

PerfNext ==
  \/ \E r \in ReqIds, u \in Users, period \in Periods :
       Quiet /\ Performance(r, u, period)
  \/ \E r \in ReqIds : Release(r)
  \/ Advance

PerfSpec == PerfInit /\ [][PerfNext]_vars

\* ------------------------------------------- reading the maturities
\* The same ledgers, asked for the investments that mature within a horizon.
HorizonDays == {0, 1, 30}

MatNext ==
  \/ \E r \in ReqIds, u \in Users, days \in HorizonDays :
       Quiet /\ Maturities(r, u, days)
  \/ \E r \in ReqIds : Release(r)
  \/ Advance

MatSpec == PerfInit /\ [][MatNext]_vars

\* ------------------------------------------- ranking the products
\* A catalog of products of two risk levels and two yields, some of them
\* deleted, from which recommendations are asked.
MaxCatalog == 4

\* what a product of the catalog may be
CatalogChoices ==
  {[SeededProduct EXCEPT !.risk_level = "high"],
   [SeededProduct EXCEPT !.risk_level = "high", !.annual_yield = 8],
   [SeededProduct EXCEPT !.risk_level = "high", !.is_active = FALSE],
   SeededProduct}

Limits == {1, 2, 5}

Generators == {"none", "generated", "fallback"}

RecInit ==
  /\ products \in [1..MaxCatalog -> CatalogChoices]
  /\ investments = <<>>
  /\ now = 0
  /\ reqs = [r \in ReqIds |-> IdleReq]
  /\ users = SeededUsers
  /\ issued = <<>>

RecNext ==
  \/ \E r \in ReqIds, u \in Users, risk \in Range(RiskLevels), limit \in Limits :
       Quiet /\ Recommend(r, u, risk, limit)
  \/ \E r \in ReqIds, generator \in Generators : Recommendations(r, generator)
  \/ \E r \in ReqIds : Release(r)

RecSpec == RecInit /\ [][RecNext]_vars

\* ------------------------------------------- scoring a diversification
\* The allocation handler at its last step: the objects typeAllocation and
\* riskAllocation are built, with the keys of any types and risk levels, and
\* the score is about to be computed from them.
\* an allocation object with the given keys
bucketsOf(keys) == [key \in keys |-> Num(HeldAmount, 1)]

ScoreInit ==
  /\ products = Catalog
  /\ investments = <<>>
  /\ now = 0
  /\ \E types \in SUBSET Range(InvestmentTypes), risks \in SUBSET Range(RiskLevels) :
       reqs = [r \in ReqIds |->
                 IF r = 1
                   THEN [IdleReq EXCEPT !.op = "allocation", !.user = "u1",
                                        !.pc = "allocation_score",
                                        !.view = <<[typeAllocation |-> bucketsOf(types),
                                                    riskAllocation |-> bucketsOf(risks)]>>]
                   ELSE IdleReq]
  /\ users = SeededUsers
  /\ issued = <<>>

\* diversification_score: calculateDiversificationScore(typeAllocation,
\* riskAllocation), sent with the objects it was computed from
Score(r) ==
  /\ reqs[r].pc = "allocation_score"
  /\ LET typeAllocation == reqs[r].view[1].typeAllocation
         riskAllocation == reqs[r].view[1].riskAllocation
     IN reqs' = [reqs EXCEPT ![r] =
          RespondWith(reqs[r], "200",
            [typeAllocation |-> typeAllocation,
             riskAllocation |-> riskAllocation,
             diversification_score |->
               calculateDiversificationScore(typeAllocation, riskAllocation)])]
  /\ UNCHANGED <<users, issued, products, investments, now>>

ScoreNext ==
  \/ \E r \in ReqIds : Score(r)
  \/ \E r \in ReqIds : Release(r)

ScoreSpec == ScoreInit /\ [][ScoreNext]_vars

\* ---------------------------------------------------- editing the catalog
\* The admin creates and updates products, two requests at a time.
\* the bodies of POST /api/products: within the rules, a minimum of zero, a
\* maximum of zero, a maximum below the minimum, a negative minimum
ProductBodies ==
  { [min_investment |-> 10, max_investment |-> NULL],
    [min_investment |-> 0, max_investment |-> NULL],
    [min_investment |-> 10, max_investment |-> 0],
    [min_investment |-> 10, max_investment |-> 5],
    [min_investment |-> 0 - 5, max_investment |-> 100] }

CatalogUpdates ==
  { [field |-> "min_investment", value |-> 0],
    [field |-> "min_investment", value |-> 60],
    [field |-> "max_investment", value |-> 0],
    [field |-> "max_investment", value |-> 5],
    [field |-> "max_investment", value |-> 0 - 5] }

CatalogInit ==
  /\ products = [p \in ProductIds |-> SeededProduct]
  /\ investments = <<>>
  /\ reqs = [r \in ReqIds |-> IdleReq]
  /\ now = 0
  /\ users = SeededUsers
  /\ issued = <<>>

CatalogNext ==
  \/ \E r \in ReqIds, body \in ProductBodies : ProductCreate(r, "admin", body)
  \/ \E r \in ReqIds, pid \in DOMAIN products, upd \in CatalogUpdates :
       ProductRead(r, "admin", pid, "product_update", upd)
  \/ \E r \in ReqIds : ProductWrite(r)
  \/ \E r \in ReqIds : Release(r)

CatalogSpec == CatalogInit /\ [][CatalogNext]_vars

\* ------------------------------------------------- asking the admin routes
\* Anyone asks for the admin routes, one request at a time; users sign up in
\* between.
NewExample == <<78, 101, 119, 64, 69, 120, 97, 109, 112, 108, 101, 46, 99, 111, 109>>

BadminExample == <<98, 97, 100, 109, 105, 110, 64, 101, 120, 97, 109, 112, 108, 101, 46, 99, 111, 109>>

SignupEmails == {JohnDoe, NewExample, BadminExample}

Callers == {Anonymous} \cup DOMAIN users

WithinRules == [min_investment |-> 10, max_investment |-> NULL]

AdminUpdates == {[field |-> "min_investment", value |-> 60]}

AdminNext ==
  \/ \E r \in ReqIds, caller \in Callers :
       Quiet /\ ProductCreate(r, caller, WithinRules)
  \/ \E r \in ReqIds, caller \in Callers, pid \in DOMAIN products,
          upd \in AdminUpdates :
       Quiet /\ ProductRead(r, caller, pid, "product_update", upd)
  \/ \E r \in ReqIds, caller \in Callers, pid \in DOMAIN products :
       Quiet /\ ProductRead(r, caller, pid, "product_delete",
                            [field |-> "is_active", value |-> 0])
  \/ \E r \in ReqIds : ProductWrite(r)
  \/ \E r \in ReqIds, caller \in Callers : Quiet /\ AdminStatistics(r, caller)
  \/ \E r \in ReqIds, email \in SignupEmails :
       Quiet /\ SignupLookup(r, email, "pw1")
  \/ \E r \in ReqIds : SignupCreate(r)
  \/ \E r \in ReqIds : Release(r)

AdminSpec == CatalogInit /\ [][AdminNext]_vars

\* ------------------------------------------- signing up, resetting passwords
Passwords == {"pw1", "pw2"}

AuthEmails == {JohnDoe, NewExample}

\* the tokens a reset request carries: one that was never issued, or an
\* issued one
Tokens == 0..MaxTokens

AuthNext ==
  \/ \E r \in ReqIds, email \in AuthEmails, password \in Passwords :
       SignupLookup(r, email, password)
  \/ \E r \in ReqIds : SignupCreate(r)
  \/ \E r \in ReqIds, email \in AuthEmails : ForgotLookup(r, email)
  \/ \E r \in ReqIds : ForgotWrite(r)
  \/ \E r \in ReqIds, token \in Tokens, password \in Passwords :
       ResetLookup(r, token, password)
  \/ \E r \in ReqIds : ResetWrite(r)
  \/ \E r \in ReqIds : Release(r)
  \/ Tick

AuthSpec == CatalogInit /\ [][AuthNext]_vars

\* ================================================================ claims
Ids == 1..Len(investments)

Done(r) == reqs[r].pc = "done"

\* the step in which request slot r is taken by an operation on an
\* investment that exists and belongs to the caller
OwnerStarts(r, op) ==
  /\ reqs[r].pc = "idle"
  /\ reqs'[r].op = op
  /\ reqs'[r].id \in Ids
  /\ investments[reqs'[r].id].user_id = reqs'[r].user

\* C1: of the cancel requests the owner makes on one investment exactly one
\* is answered with success, every other one with "already cancelled"
C1_OneCancelSucceeds ==
  \A r1, r2 \in ReqIds :
    ( /\ r1 # r2
      /\ Done(r1) /\ reqs[r1].op = "cancel" /\ reqs[r1].res = "200"
      /\ Done(r2) /\ reqs[r2].op = "cancel" /\ reqs[r2].id = reqs[r1].id
      /\ reqs[r2].user = reqs[r1].user )
    => reqs[r2].res = "400 already cancelled"

\* C2: matured and cancelled are terminal: a stored status only ever changes
\* from active, and then to matured or to cancelled
C2_TerminalStatuses ==
  [][\A i \in Ids :
       investments'[i].status # investments[i].status
         => /\ investments[i].status = "active"
            /\ investments'[i].status \in {"matured", "cancelled"}]_vars

\* C3: a cancel by the owner is decided by the stored status it reads: active
\* goes on to the write, which answers success, stores cancelled and keeps the
\* row; matured and cancelled are refused with their own reason and leave the
\* investments as they were
C3_CancelByStatus ==
  [][\A r \in ReqIds :
       /\ OwnerStarts(r, "cancel") =>
            LET status == investments[reqs'[r].id].status IN
            /\ status = "active" => reqs'[r].pc = "cancel_write"
            /\ status = "matured" =>
                 /\ reqs'[r].pc = "done"
                 /\ reqs'[r].res = "400 already matured"
            /\ status = "cancelled" =>
                 /\ reqs'[r].pc = "done"
                 /\ reqs'[r].res = "400 already cancelled"
            /\ investments' = investments
       /\ (reqs[r].pc = "cancel_write" /\ reqs'[r].pc = "done") =>
            /\ reqs'[r].res = "200"
            /\ Len(investments') = Len(investments)
            /\ investments'[reqs[r].id].status = "cancelled"]_vars

C3_Witness ==
  \E r1, r2 \in ReqIds :
    /\ Done(r1) /\ reqs[r1].op = "cancel" /\ reqs[r1].res = "200"
    /\ Done(r2) /\ reqs[r2].op = "cancel" /\ reqs[r2].id = reqs[r1].id
    /\ reqs[r2].res = "400 already cancelled"
    /\ investments[reqs[r1].id].status = "cancelled"

\* the bounds of a product, as numbers
WithinBounds(n, product) ==
  /\ n >= product.min_investment
  /\ product.max_investment = NULL \/ n <= product.max_investment

\* C4: a create on an active product goes through exactly when the amount is
\* within the product's bounds; below the minimum and above a present maximum
\* are refused with their own reason, and the lookup step adds no investment
C4_CreateIffWithinBounds ==
  [][\A r \in ReqIds, u \in Users, pid \in ProductIds, a \in AmountInputs :
       (CreateLookup(r, u, pid, a, NullNotes) /\ products[pid].is_active) =>
         LET product == products[pid]
             n == parseFloat(a)
         IN /\ n < product.min_investment =>
                 reqs'[r].res = "400 below minimum"
            /\ ( /\ n >= product.min_investment
                 /\ product.max_investment # NULL
                 /\ n > product.max_investment ) =>
                 reqs'[r].res = "400 above maximum"
            /\ WithinBounds(n, product) <=> reqs'[r].pc = "create_hook"
            /\ investments' = investments]_vars

\* C5: the product of an investment is active at the instant the investment
\* is inserted
C5_ActiveAtInsert ==
  [][Len(investments') > Len(investments) =>
       products[investments'[Len(investments')].product_id].is_active]_vars

\* C6: the row a create inserts is active, has expected_return and
\* maturity_date set, and its amount is within the bounds of the product
\* version from which expected_return and maturity_date were computed
C6_PricedWithCheckedProduct ==
  [][\A r \in ReqIds :
       (reqs[r].pc = "create_insert" /\ reqs'[r].pc = "done") =>
         LET row == investments'[Len(investments')]
             priced == reqs[r].hookProduct[1]
         IN /\ row.status = "active"
            /\ row.expected_return = calculateExpectedReturn(priced, row.amount)
            /\ row.maturity_date =
                 dateOnly(addMonths(row.invested_at, priced.tenure_months))
            /\ WithinBounds(row.amount, priced)]_vars

\* C7: no step changes the expected_return, maturity_date, amount,
\* invested_at, user or product of an investment that exists, nor removes it
C7_StoredTermsFrozen ==
  [][/\ Len(investments') >= Len(investments)
     /\ \A i \in Ids :
          /\ investments'[i].expected_return = investments[i].expected_return
          /\ investments'[i].maturity_date = investments[i].maturity_date
          /\ investments'[i].amount = investments[i].amount
          /\ investments'[i].invested_at = investments[i].invested_at
          /\ investments'[i].user_id = investments[i].user_id
          /\ investments'[i].product_id = investments[i].product_id]_vars

\* an investment that was cancelled and whose product was edited since: the
\* stored projection is no longer what the product would give today
C7_Witness ==
  \E i \in Ids :
    /\ investments[i].status = "cancelled"
    /\ investments[i].expected_return #
         calculateExpectedReturn(products[investments[i].product_id],
                                 investments[i].amount)

\* C8: a successful cancel and a successful notes update of one investment
\* both stay in the row: the status is cancelled and the notes are the
\* supplied ones, whatever the order of their reads and writes
C8_NoLostWrite ==
  \A r \in ReqIds :
    (Done(r) /\ reqs[r].res = "200") =>
      /\ reqs[r].op = "cancel" => investments[reqs[r].id].status = "cancelled"
      /\ reqs[r].op = "notes" => investments[reqs[r].id].notes \in NoteValues

C8_Witness ==
  \E rc, rn \in ReqIds :
    /\ Done(rc) /\ reqs[rc].op = "cancel" /\ reqs[rc].res = "200"
    /\ Done(rn) /\ reqs[rn].op = "notes" /\ reqs[rn].res = "200"
    /\ reqs[rn].id = reqs[rc].id
    /\ investments[reqs[rc].id].status = "cancelled"
    /\ investments[reqs[rc].id].notes \in NoteValues

\* C9: a notes update by the owner is accepted whatever the status, and its
\* write answers success and changes the notes column of that row only
C9_NotesAnyStatus ==
  [][\A r \in ReqIds :
       /\ OwnerStarts(r, "notes") =>
            /\ reqs'[r].pc = "notes_write"
            /\ investments' = investments
       /\ (reqs[r].pc = "notes_write" /\ reqs'[r].pc = "done") =>
            /\ reqs'[r].res = "200"
            /\ investments' = [investments EXCEPT
                                 ![reqs[r].id].notes = reqs[r].notes]]_vars

\* a notes update accepted on an investment it read as matured or cancelled
C9_Witness ==
  \E r \in ReqIds :
    /\ reqs[r].pc = "notes_write"
    /\ reqs[r].instance[1].status \in {"matured", "cancelled"}

\* C10: a get, cancel or notes update by a user who does not own the
\* investment is answered not found in its first step and leaves the
\* investments as they were
C10_OwnerOnly ==
  [][\A r \in ReqIds :
       ( /\ reqs[r].pc = "idle"
         /\ reqs'[r].op \in {"get", "cancel", "notes"}
         /\ reqs'[r].id \in Ids
         /\ investments[reqs'[r].id].user_id # reqs'[r].user )
       => /\ reqs'[r].pc = "done"
          /\ reqs'[r].res = "404 investment not found"
          /\ investments' = investments]_vars

C10_Witness ==
  \E r \in ReqIds :
    /\ Done(r) /\ reqs[r].op \in {"cancel", "notes"}
    /\ reqs[r].id \in Ids
    /\ investments[reqs[r].id].user_id # reqs[r].user
    /\ reqs[r].res = "404 investment not found"
    /\ investments[reqs[r].id].status = "active"
    /\ investments[reqs[r].id].notes = NullNotes

\* C11: the step in which a product is soft-deleted keeps is_active = FALSE as
\* the only change: every investment still resolves its product, with the
\* product's other columns as they were, and the calculated fields of every
\* investment and every user's portfolio snapshot and statistics are what
\* they were before the step
C11_SoftDeleteKeepsValuations ==
  [][\A r \in ReqIds :
       ( /\ reqs[r].pc = "product_write" /\ reqs[r].op = "product_delete"
         /\ reqs'[r].res = "200" )
       => /\ ~products'[reqs[r].product_id].is_active
          /\ Len(investments') = Len(investments)
          /\ \A i \in Ids :
               LET before == withProduct(investments[i])
                   after == (withProduct(investments[i]))'
               IN /\ before.product # <<>>
                  /\ after.product # <<>>
                  /\ \A c \in DOMAIN SeededProduct \ {"is_active"} :
                       after.product[1][c] = before.product[1][c]
                  /\ enrich(after, now') = enrich(before, now)
          /\ \A u \in Users :
               /\ (findByUser(u))' = findByUser(u)
               /\ (findAllOfUser(u))' = findAllOfUser(u)
               /\ \A order \in findAllOfUser(u) :
                    LET before == rowsOf(order)
                        after == (rowsOf(order))'
                    IN /\ getUserPortfolioValue(after, now')
                            = getUserPortfolioValue(before, now)
                       /\ statsSummary(after, now') = statsSummary(before, now)]_vars

\* a soft delete has succeeded on a product that an investment references
C11_Witness ==
  \E r \in ReqIds, i \in Ids :
    /\ Done(r) /\ reqs[r].op = "product_delete" /\ reqs[r].res = "200"
    /\ ~products[investments[i].product_id].is_active
    /\ includeProduct(investments[i]) = <<products[investments[i].product_id]>>

\* C12: at every instant the current value of a matured investment whose
\* actual_return is set is that actual_return, zero included; the current
\* value of any other investment is the one an active investment with the
\* same terms and no actual_return has
C12_SettledValueOverrides ==
  \A i \in Ids, at \in ValInstants :
    LET investment == investments[i]
        unsettled == [investment EXCEPT !.status = "active",
                                        !.actual_return = NULL]
    IN IF investment.status = "matured" /\ investment.actual_return # NULL
         THEN /\ getCurrentValue(investment, at)
                   = decimalAttr(investment.actual_return)
              /\ ToNumber(getCurrentValue(investment, at))
                   = Num(investment.actual_return, 100)
         ELSE getCurrentValue(investment, at) = getCurrentValue(unsettled, at)

\* an investment settled with a return of zero has been read in the middle
\* of its holding period and valued at zero
C12_Witness ==
  \E r \in ReqIds :
    /\ Done(r) /\ reqs[r].op = "get" /\ reqs[r].res = "200"
    /\ investments[reqs[r].id].status = "matured"
    /\ investments[reqs[r].id].actual_return = 0
    /\ investments[reqs[r].id].invested_at < now
    /\ now < investments[reqs[r].id].maturity_date
    /\ ToNumber(reqs[r].view[1].current_value) = Num(0, 1)

\* x <= y of two values read as numbers; NaN compares with nothing
NumLeq(a, b) ==
  LET x == ToNumber(a)
      y == ToNumber(b)
  IN x.t = "number" /\ y.t = "number" /\ x.p * y.q <= y.p * x.q

\* an investment whose settled value does not apply
Unsettled(investment) ==
  investment.status # "matured" \/ investment.actual_return = NULL

\* C13: the current value of an unsettled investment is its amount at every
\* instant up to invested_at, its expected_return at every instant from
\* maturity_date on, and at every instant a number between the two
C13_ValueWithinTerms ==
  \A i \in Ids, at \in ValInstants :
    LET investment == investments[i]
        value == getCurrentValue(investment, at)
        amount == Num(investment.amount, 1)
        expected_return == Num(investment.expected_return, 100)
    IN Unsettled(investment) =>
         /\ at <= investment.invested_at => ToNumber(value) = amount
         /\ at >= investment.maturity_date => ToNumber(value) = expected_return
         /\ NumLeq(amount, value) /\ NumLeq(value, expected_return)

\* C14: the current value of an unsettled investment whose expected_return
\* exceeds its amount never goes down as the clock advances
C14_ValueMonotonic ==
  \A i \in Ids, t1, t2 \in ValInstants :
    LET investment == investments[i]
    IN ( /\ Unsettled(investment)
         /\ investment.expected_return > investment.amount * 100
         /\ t1 <= t2 )
       => NumLeq(getCurrentValue(investment, t1), getCurrentValue(investment, t2))

\* C15: strictly inside the holding period the current value of an unsettled
\* investment is amount + (expected_return - amount) * elapsed / total,
\* rounded to hundredths
C15_LinearInterpolation ==
  \A i \in Ids, at \in ValInstants :
    LET investment == investments[i]
        total == investment.maturity_date - investment.invested_at
        elapsed == at - investment.invested_at
        amount == investment.amount * 100
        gain == investment.expected_return - amount
    IN ( /\ Unsettled(investment)
         /\ investment.invested_at < at /\ at < investment.maturity_date )
       => ToNumber(getCurrentValue(investment, at))
            = Num(RoundDiv(amount * total + gain * elapsed, total), 100)

\* C16: for every positive amount the projection of a product is at least
\* the amount when the product's yield is positive and exactly the amount
\* when the yield is zero, and the expected_return of every stored
\* investment is at least its amount
C16_ExpectedReturnAtLeastAmount ==
  /\ \A pid \in ProductIds, a \in AmountValues :
       LET product == products[pid]
           projected == calculateExpectedReturn(product, a)
       IN /\ product.annual_yield > 0 => projected >= a * 100
          /\ product.annual_yield = 0 => projected = a * 100
  /\ \A i \in Ids :
       /\ investments[i].expected_return # NULL
       /\ investments[i].expected_return >= investments[i].amount * 100

\* an investment in a product with a positive yield, stored with a projection
\* above its amount, has been read
C16_Witness ==
  \E r \in ReqIds :
    /\ Done(r) /\ reqs[r].op = "get" /\ reqs[r].res = "200"
    /\ products[investments[reqs[r].id].product_id].annual_yield > 0
    /\ investments[reqs[r].id].expected_return
         = calculateExpectedReturn(products[investments[reqs[r].id].product_id],
                                   investments[reqs[r].id].amount)
    /\ investments[reqs[r].id].expected_return > investments[reqs[r].id].amount * 100

\* a read of an investment that has been answered with its calculated fields
Valued(r) == Done(r) /\ reqs[r].op = "get" /\ reqs[r].res = "200"

\* C17: the days to maturity reported for an investment are 0 when its status
\* is matured and more than 0 when it is not
C17_ZeroIffMatured ==
  \A r \in ReqIds :
    Valued(r) =>
      ( reqs[r].view[1].days_to_maturity = 0
          <=> investments[reqs[r].id].status = "matured" )

\* C17 as amended: the days to maturity are 0 for a matured investment at
\* every instant; for any other investment they are 0 from the maturity date
\* on and more than 0 before it
C17_ZeroIffMaturedOrDue ==
  \A i \in Ids, at \in ValInstants :
    LET investment == investments[i]
        days == getDaysToMaturity(investment, at)
    IN /\ days >= 0
       /\ investment.status = "matured" => days = 0
       /\ investment.status # "matured" =>
            (days = 0 <=> at >= investment.maturity_date)

\* an active investment read after its maturity date reports 0 days
C17_Witness ==
  \E r \in ReqIds :
    /\ Valued(r)
    /\ investments[reqs[r].id].status = "active"
    /\ now > investments[reqs[r].id].maturity_date
    /\ reqs[r].view[1].days_to_maturity = 0

\* C18: the days to maturity are never negative, and for an investment that
\* is not matured they are strictly fewer at the later of any two instants up
\* to the maturity date
C18_StrictlyDecreasing ==
  \A i \in Ids, t1, t2 \in ValInstants :
    LET investment == investments[i]
    IN /\ getDaysToMaturity(investment, t1) >= 0
       /\ ( /\ investment.status # "matured"
            /\ t1 < t2 /\ t2 <= investment.maturity_date )
          => getDaysToMaturity(investment, t2) < getDaysToMaturity(investment, t1)

\* C18 as amended: the days to maturity are never negative, and for an
\* investment that is not matured they never grow as the clock advances and
\* are strictly fewer at an instant a whole day or more after an instant
\* before the maturity date
C18_DecreasingByDay ==
  \A i \in Ids, t1, t2 \in ValInstants :
    LET investment == investments[i]
        days1 == getDaysToMaturity(investment, t1)
        days2 == getDaysToMaturity(investment, t2)
    IN /\ days1 >= 0
       /\ (investment.status # "matured" /\ t1 < t2) =>
            /\ days2 <= days1
            /\ (t2 - t1 >= TicksPerDay /\ t1 < investment.maturity_date)
                 => days2 < days1

\* an investment that is not matured has been read before its maturity date
\* and reports the days it had at an earlier instant of the same day
C18_Witness ==
  \E r \in ReqIds, t \in ValInstants :
    /\ Valued(r)
    /\ investments[reqs[r].id].status # "matured"
    /\ t < now /\ now < investments[reqs[r].id].maturity_date
    /\ reqs[r].view[1].days_to_maturity > 0
    /\ reqs[r].view[1].days_to_maturity = getDaysToMaturity(investments[reqs[r].id], now)
    /\ reqs[r].view[1].days_to_maturity = getDaysToMaturity(investments[reqs[r].id], t)

\* C19: every stored investment has an amount above zero, so the divisor of
\* its gain percentage is not zero; a create request with an amount of zero
\* or less is refused by the validation of the body and never reaches the
\* insert
C19_StoredAmountPositive ==
  /\ \A i \in Ids :
       /\ investments[i].amount > 0
       /\ ToNumber(decimalAttr(investments[i].amount * 100)) # Num(0, 1)
  /\ \A r \in ReqIds :
       (reqs[r].op = "create" /\ parseFloat(reqs[r].amount) <= 0) =>
         /\ Done(r)
         /\ reqs[r].res = "400 validation failed"

\* on a product with a minimum of zero a create with amount zero has been
\* refused and another create has stored its investment
C19_Witness ==
  \E r1, r2 \in ReqIds :
    /\ Done(r1) /\ reqs[r1].op = "create" /\ parseFloat(reqs[r1].amount) = 0
    /\ reqs[r1].res = "400 validation failed"
    /\ \A pid \in ProductIds : products[pid].min_investment = 0
    /\ Done(r2) /\ reqs[r2].op = "create" /\ reqs[r2].res = "201"
    /\ investments[reqs[r2].id].amount > 0

\* the amounts of rows added up, in whole units
RECURSIVE SumAmounts(_)
SumAmounts(rows) ==
  IF rows = <<>> THEN 0
  ELSE SumAmounts(SubSeq(rows, 1, Len(rows) - 1)) + rows[Len(rows)].amount

\* the current values of rows added up as numbers
RECURSIVE SumValues(_, _)
SumValues(rows, at) ==
  IF rows = <<>> THEN Num(0, 1)
  ELSE JsPlus(SumValues(SubSeq(rows, 1, Len(rows) - 1), at),
              ToNumber(getCurrentValue(rows[Len(rows)], at)))

\* C20: the portfolio snapshot and the statistics of a user add up the amount
\* and the current value of all of the user's investments whatever their
\* status, report the difference of the two sums as the gain and the number
\* of investments as the count, and report a gain percentage of 0 when
\* nothing is invested, else gain / invested * 100
C20_SnapshotSums ==
  \A u \in Users, at \in ValInstants :
    \A order \in findByUser(u) :
      LET rows == rowsOf(order)
          snapshot == getUserPortfolioValue(rows, at)
          stats == statsSummary(rows, at)
          invested == Num(SumAmounts(rows), 1)
          value == SumValues(rows, at)
          gain == JsMinus(value, invested)
          percentage == IF SumAmounts(rows) = 0 THEN Num(0, 1)
                        ELSE JsTimes(JsDivide(gain, invested), Num(100, 1))
      IN /\ Len(rows) = Cardinality({i \in Ids : investments[i].user_id = u})
         /\ snapshot.investmentCount = Len(rows)
         /\ snapshot.totalInvested = invested
         /\ snapshot.currentValue = value
         /\ snapshot.totalGain = gain
         /\ snapshot.totalGainPercentage = percentage
         /\ stats.total_investments = Len(rows)
         /\ stats.total_invested = invested
         /\ stats.current_value = value
         /\ stats.total_gain = gain
         /\ stats.total_gain_percentage = percentage

AllocationAxes == {"by_type", "by_risk", "by_tenure"}

\* the percentages of the buckets keys of one axis added up
RECURSIVE SumPercentages(_, _)
SumPercentages(buckets, keys) ==
  IF keys = {} THEN Num(0, 1)
  ELSE LET key == CHOOSE k \in keys : TRUE
       IN JsPlus(SumPercentages(buckets, keys \ {key}),
                 ToNumber(buckets[key].percentage))

\* C21: the allocation breakdown of a user has, on each axis, exactly the
\* buckets of the user's active investments; the percentages of the buckets
\* of one axis add up to 100 when the current values of the active
\* investments add up to more than 0, and every bucket has percentage 0 when
\* they add up to 0
C21_AllocationPercentages ==
  \A u \in Users, at \in ValInstants :
    \A order \in findAllActiveOfUser(u) :
      LET rows == rowsOf(order)
          data == allocationBreakdown(rows, at)
          total == SumValues(rows, at)
      IN /\ \A k \in DOMAIN rows : rows[k].status = "active" /\ rows[k].user_id = u
         /\ Len(rows) = Cardinality({i \in Ids : /\ investments[i].user_id = u
                                                 /\ investments[i].status = "active"})
         /\ \A axis \in AllocationAxes :
              /\ DOMAIN data[axis] = {allocationKey(rows[k], axis) : k \in DOMAIN rows}
              /\ JsGreater(total, Num(0, 1)) =>
                   SumPercentages(data[axis], DOMAIN data[axis]) = Num(100, 1)
              /\ total = Num(0, 1) =>
                   \A key \in DOMAIN data[axis] :
                     data[axis][key].percentage = Num(0, 1)

\* the values of the buckets keys added up as numbers
RECURSIVE SumBucketValues(_, _)
SumBucketValues(buckets, keys) ==
  IF keys = {} THEN Num(0, 1)
  ELSE LET key == CHOOSE k \in keys : TRUE
       IN JsPlus(SumBucketValues(buckets, keys \ {key}),
                 ToNumber(buckets[key].value))

\* C22: every active investment of a user counts in the tenure bucket of its
\* product's tenure_months, up to 12 months in the first, 13 to 24 in the
\* second, 25 to 36 in the third and 37 or more in the last, and the values
\* of the tenure buckets add up to the current values of the user's active
\* investments
C22_TenureBuckets ==
  \A u \in Users, at \in ValInstants :
    \A order \in findAllActiveOfUser(u) :
      LET rows == rowsOf(order)
          buckets == allocationBreakdown(rows, at).by_tenure
      IN /\ \A k \in DOMAIN rows :
              LET tenure == rows[k].product[1].tenure_months
                  key == allocationKey(rows[k], "by_tenure")
              IN /\ key \in DOMAIN buckets
                 /\ tenure <= 12 => key = "0-12 months"
                 /\ tenure \in 13..24 => key = "13-24 months"
                 /\ tenure \in 25..36 => key = "25-36 months"
                 /\ tenure >= 37 => key = "37+ months"
         /\ DOMAIN buckets = {allocationKey(rows[k], "by_tenure") : k \in DOMAIN rows}
         /\ SumBucketValues(buckets, DOMAIN buckets) = SumValues(rows, at)

\* the allocation handler has computed a score in slot r
Scored(r) ==
  /\ Done(r) /\ reqs[r].op = "allocation" /\ reqs[r].res = "200"
  /\ "typeAllocation" \in DOMAIN reqs[r].view[1]

\* C23: the diversification score of type buckets and risk buckets is an
\* integer from 0 to 100, the nearest integer to
\* min(types / 5, 1) * 60 + min(risks / 3, 1) * 40; it is 100 exactly when
\* the buckets have all 5 types and all 3 risk levels and 0 exactly when
\* there is no bucket of either kind
C23_DiversificationScore ==
  \A r \in ReqIds :
    Scored(r) =>
      LET types == DOMAIN reqs[r].view[1].typeAllocation
          risks == DOMAIN reqs[r].view[1].riskAllocation
          score == reqs[r].view[1].diversification_score
      IN /\ score.t = "number" /\ score.q = 1 /\ score.p \in 0..100
         /\ score.p = RoundDiv(Min(Cardinality(types), 5) * 60 * 3
                                 + Min(Cardinality(risks), 3) * 40 * 5, 15)
         /\ score.p = 100 <=>
              types = Range(InvestmentTypes) /\ risks = Range(RiskLevels)
         /\ score.p = 0 <=> types = {} /\ risks = {}

\* a score of 100 has been given to buckets of all types and risk levels
C23_Witness ==
  \E r \in ReqIds :
    /\ Scored(r)
    /\ reqs[r].view[1].diversification_score = Num(100, 1)
    /\ Cardinality(DOMAIN reqs[r].view[1].typeAllocation) = 5
    /\ Cardinality(DOMAIN reqs[r].view[1].riskAllocation) = 3

\* one field of the first k points of a series added up as numbers
RECURSIVE SumPoints(_, _, _)
SumPoints(points, k, field) ==
  IF k = 0 THEN Num(0, 1)
  ELSE JsPlus(SumPoints(points, k - 1, field), ToNumber(points[k][field]))

\* C24: the performance series of a user over a period has one point for
\* each calendar month in which the user placed an investment between the
\* start of the period and now, in strictly ascending order of the months; a
\* point carries the amounts and the current values of the investments of
\* its month placed in the period, added up, the running sums of both over
\* the points so far, and the difference of the running sums as the
\* cumulative gain
C24_PerformanceSeries ==
  \A u \in Users, period \in Periods :
    \A order \in findAllSince(u, startDateOf(period, now)) :
      LET rows == rowsOf(order)
          points == performance(rows, period, now).performance_data
          inRange == {i \in Ids : /\ investments[i].user_id = u
                                  /\ investments[i].invested_at >= startDateOf(period, now)
                                  /\ investments[i].invested_at <= now}
      IN /\ {order[k] : k \in DOMAIN order} = inRange
         /\ {points[k].date : k \in DOMAIN points}
              = {monthKeyOf(investments[i].invested_at) : i \in inRange}
         /\ \A j, k \in DOMAIN points : j < k => points[j].date < points[k].date
         /\ \A k \in DOMAIN points :
              /\ points[k].invested_amount
                   = Num(SumAmounts(monthRows(rows, points[k].date)), 1)
              /\ points[k].current_value
                   = SumValues(monthRows(rows, points[k].date), now)
              /\ points[k].cumulative_invested = SumPoints(points, k, "invested_amount")
              /\ points[k].cumulative_value = SumPoints(points, k, "current_value")
              /\ points[k].cumulative_gain
                   = JsMinus(SumPoints(points, k, "current_value"),
                             SumPoints(points, k, "invested_amount"))

\* C25: the answer to a request for the maturities within days days lists
\* exactly the investments of the user that are active and whose
\* maturity_date is at most now + days, never a matured or cancelled one, in
\* ascending order of maturity_date, each with the current value and the
\* days to maturity it has at the time of the request
C25_UpcomingMaturities ==
  [][\A r \in ReqIds :
       reqs[r].pc = "idle" /\ reqs'[r].op = "maturities" =>
         LET u == reqs'[r].user
             data == reqs'[r].view[1]
             listed == data.upcoming_maturities
             horizon == now + data.period_days * TicksPerDay
         IN /\ reqs'[r].res = "200"
            /\ data.period_days \in HorizonDays
            /\ \A j, k \in DOMAIN listed : j # k => listed[j].id # listed[k].id
            /\ {listed[k].id : k \in DOMAIN listed}
                 = {i \in Ids : /\ investments[i].user_id = u
                                /\ investments[i].status = "active"
                                /\ investments[i].maturity_date <= horizon}
            /\ \A j, k \in DOMAIN listed :
                 j < k => listed[j].maturity_date <= listed[k].maturity_date
            /\ \A k \in DOMAIN listed :
                 /\ listed[k].status = "active"
                 /\ listed[k].maturity_date = investments[listed[k].id].maturity_date
                 /\ listed[k].current_value
                      = getCurrentValue(investments[listed[k].id], now)
                 /\ listed[k].days_to_maturity
                      = getDaysToMaturity(investments[listed[k].id], now)]_vars

\* a request has listed two investments of a user who also holds one that is
\* not active, or that matures beyond the horizon
C25_Witness ==
  \E r \in ReqIds :
    /\ Done(r) /\ reqs[r].op = "maturities"
    /\ Len(reqs[r].view[1].upcoming_maturities) = 2
    /\ Cardinality({i \in Ids : investments[i].user_id = reqs[r].user}) = 3

\* the recommendation handler has run its query in slot r
Ranked(r) == reqs[r].op = "recommend" /\ reqs[r].pc \in {"recommend_ai", "done"}

C27_CatalogLimits ==
  \A p \in DOMAIN products :
    /\ products[p].min_investment > 0
    /\ products[p].max_investment # NULL =>
         products[p].max_investment > products[p].min_investment

AdminOps ==
  {"product_create", "product_update", "product_delete", "product_statistics"}

\* an account that is not on the admin list and has no 'admin' in its address
Ordinary(row) ==
  /\ row.email # AdminGripinvest
  /\ row.email # PrayasGripinvest
  /\ ~includes(row.email, <<97, 100, 109, 105, 110>>)

\* C28: product create, update, soft delete and the admin statistics are
\* admin-only: a request without a token is answered 401 and a request of a
\* user who is not an admin 403 'Admin access required', both leaving the
\* catalog as it was; only a request of an admin ever writes the catalog; and
\* an ordinary account, registered through signup or seeded, stays ordinary.
C28_AdminOnly ==
  [][ /\ \A r \in ReqIds :
           (reqs[r].pc = "idle" /\ reqs'[r].op \in AdminOps) =>
             LET caller == reqs'[r].user
             IN /\ caller = "anonymous" =>
                     /\ reqs'[r].pc = "done" /\ reqs'[r].res = "401"
                     /\ products' = products
                /\ (caller \in DOMAIN users /\ Ordinary(users[caller])) =>
                     /\ reqs'[r].pc = "done"
                     /\ reqs'[r].res = "403 Admin access required"
                     /\ products' = products
      /\ products' # products =>
           \E r \in ReqIds :
             /\ reqs'[r].pc = "done" /\ reqs[r].pc # "done"
             /\ reqs'[r].op \in AdminOps \ {"product_statistics"}
             /\ reqs'[r].user \in DOMAIN users
             /\ ~Ordinary(users[reqs'[r].user])
      /\ \A u \in DOMAIN users :
           Ordinary(users[u]) => u \in DOMAIN users' /\ Ordinary(users'[u]) ]_vars

\* a user who signed up with an ordinary address has asked for the soft delete
\* of a product and has been answered 403
C28_Witness ==
  \E r \in ReqIds :
    /\ reqs[r].pc = "done" /\ reqs[r].op = "product_delete"
    /\ reqs[r].user \in DOMAIN users \cap Range(NewUserIds)
    /\ Ordinary(users[reqs[r].user])
    /\ reqs[r].res = "403 Admin access required"

\* C29: the addresses of the users are unique; a signup whose address belongs
\* to a user when the request ends, two concurrent signups with one address
\* included, creates no user and is answered 409 'User already exists'; any
\* other signup creates the user.
C29_UniqueEmail ==
  [][ /\ \A u, v \in DOMAIN users' :
           users'[u].email = users'[v].email => u = v
      /\ \A r \in ReqIds :
           (reqs'[r].op = "signup" /\ reqs'[r].pc = "done" /\ reqs[r].pc # "done") =>
             IF \E u \in DOMAIN users : users[u].email = reqs'[r].email
               THEN /\ users' = users
                    /\ reqs'[r].res = "409 User already exists"
               ELSE /\ reqs'[r].res = "201"
                    /\ \E u \in DOMAIN users' \ DOMAIN users :
                         users'[u].email = reqs'[r].email ]_vars

\* C30: a reset token is single-use and time-limited. A forgot-password
\* request stores a token that was never issued before, valid for one hour;
\* a reset-password request goes on only with a token that is stored for a
\* user and has not expired, and is answered 400 'Invalid or expired token'
\* otherwise, leaving every user as it was; and a reset-password request
\* changes the password only while its token is still the stored one, which
\* it clears: a token that was used or replaced changes no password, so of
\* two concurrent requests with one token at most one changes the password.
C30_ResetTokenSingleUse ==
  [][ \A r \in ReqIds :
        /\ (reqs[r].pc = "forgot_write" /\ reqs'[r].pc = "done") =>
             LET row == users'[reqs[r].user]
             IN /\ row.reset_token > Len(issued)
                /\ row.reset_token_expires = now * 12 + 1
        /\ (reqs[r].pc = "idle" /\ reqs'[r].op = "reset") =>
             /\ users' = users
             /\ IF \E u \in DOMAIN users :
                     /\ users[u].reset_token = reqs'[r].token
                     /\ now * 12 < users[u].reset_token_expires
                  THEN reqs'[r].pc = "reset_write"
                  ELSE /\ reqs'[r].pc = "done"
                       /\ reqs'[r].res = "400 Invalid or expired token"
        /\ (reqs[r].pc = "reset_write" /\ reqs'[r].pc = "done") =>
             LET u == reqs[r].user
             IN IF users[u].reset_token = reqs[r].token
                  THEN /\ users'[u].password_hash = <<"bcrypt", reqs[r].password>>
                       /\ users'[u].reset_token = NULL
                       /\ reqs'[r].res = "200"
                  ELSE users' = users /\ reqs'[r].res # "200" ]_vars
====
